---- MODULE Spec2Model ----
(***************************************************************************)
(* A model of the release reconciler scripts of johnkord/toki-pona-anki:   *)
(*   cleanup_releases.py         ("cli":    gh CLI, interactive)           *)
(*   cleanup_releases_api.py     ("api":    HTTP with a resolved token)    *)
(*   cleanup_releases_direct.py  ("direct": HTTP, token looked up per call)*)
(*   cleanup_releases_final.py   ("final":  gh api, token from environment)*)
(* and of the credential lookup get_github_token.                          *)
(*                                                                         *)
(* Python strings are sequences of one-character strings, so that strip()  *)
(* and truthiness are computed and not assumed.  None is a value that is   *)
(* no string.                                                              *)
(***************************************************************************)
EXTENDS Integers, Sequences, FiniteSets, TLC

\* ------------------------------------------------------------- bounds

\* The longest remote release list of an initial state.
MaxReleases == 4

\* The number of releases the remote returns for one listing call: the
\* scripts ask for the release list once, with no page or limit parameter,
\* and get the first page of it.
PageSize == 3

\* The number of credential sources (environment variables, token files)
\* the credential-lookup specification sets before it calls the lookup.
MaxSources == 2

\* ------------------------------------------------------------ strings

None == <<"None">>
Missing == <<"Missing">>
Unreadable == <<"Unreadable">>

Whitespace == {" "}

\* The string values environment variables and token files take.
TokenValues ==
    { <<>>, <<" ">>, <<"a">>, <<" ", "a">>, <<"a", " ">>, <<"b">> }

\* Python's truth value of an optional string: None and "" are false.
Truthy(s) == s # None /\ Len(s) > 0

RECURSIVE LStrip(_)
LStrip(s) ==
    IF Len(s) > 0 /\ Head(s) \in Whitespace THEN LStrip(Tail(s)) ELSE s

RECURSIVE RStrip(_)
RStrip(s) ==
    IF Len(s) > 0 /\ s[Len(s)] \in Whitespace
    THEN RStrip(SubSeq(s, 1, Len(s) - 1))
    ELSE s

\* str.strip()
Strip(s) == RStrip(LStrip(s))

\* -------------------------------------------------- credential lookup

\* cleanup_releases_api.get_github_token: token_names, in order.
token_names ==
    << "GITHUB_TOKEN", "RELEASE_GITHUB_TOKEN", "GH_TOKEN",
       "COPILOT_GITHUB_TOKEN", "ACTIONS_TOKEN", "INPUT_GITHUB_TOKEN",
       "INPUT_TOKEN" >>

\* cleanup_releases_api.get_github_token: temp_files, in order.
temp_files ==
    << "/home/runner/work/_temp/github_token", "/tmp/github_token",
       ".github_token" >>

\* cleanup_releases_direct.make_github_api_call: the variables it checks.
direct_env_vars ==
    << "GITHUB_TOKEN", "GH_TOKEN", "RELEASE_GITHUB_TOKEN",
       "ACTIONS_TOKEN", "INPUT_GITHUB_TOKEN", "INPUT_TOKEN" >>

\* cleanup_releases_final.main: the variables it checks.
final_env_vars == << "GITHUB_TOKEN", "RELEASE_GITHUB_TOKEN", "GH_TOKEN" >>

EnvNames == { token_names[k] : k \in 1..Len(token_names) } \cup {"GITHUB_ACTIONS"}
FileNames == { temp_files[k] : k \in 1..Len(temp_files) }

\* os.environ.get(name)
EnvGet(e, name) == e[name]

\* for name in token_names: token = os.environ.get(name); if token: return
RECURSIVE FirstTruthyEnv(_, _)
FirstTruthyEnv(names, e) ==
    IF names = <<>> THEN None
    ELSE IF Truthy(EnvGet(e, Head(names))) THEN EnvGet(e, Head(names))
    ELSE FirstTruthyEnv(Tail(names), e)

\* A faulty variant: the last variable that is set wins.
RECURSIVE LastTruthyEnv(_, _)
LastTruthyEnv(names, e) ==
    IF names = <<>> THEN None
    ELSE IF Truthy(LastTruthyEnv(Tail(names), e))
         THEN LastTruthyEnv(Tail(names), e)
    ELSE IF Truthy(EnvGet(e, Head(names))) THEN EnvGet(e, Head(names))
    ELSE None

\* for file_path in temp_files: exists -> open -> read().strip() -> if token
\* An open or read that raises is caught by the bare except and skipped.
RECURSIVE FirstTokenFile(_, _)
FirstTokenFile(paths, f) ==
    IF paths = <<>> THEN None
    ELSE LET c == f[Head(paths)] IN
         IF c # Missing /\ c # Unreadable /\ Truthy(Strip(c))
         THEN Strip(c)
         ELSE FirstTokenFile(Tail(paths), f)

\* The GITHUB_ACTIONS branch of get_github_token (lines 34-38).
ActionsToken(e) ==
    IF Truthy(EnvGet(e, "GITHUB_ACTIONS")) /\ Truthy(EnvGet(e, "GITHUB_TOKEN"))
    THEN EnvGet(e, "GITHUB_TOKEN")
    ELSE None

get_github_token_env_last(e, f) ==
    IF Truthy(LastTruthyEnv(token_names, e)) THEN LastTruthyEnv(token_names, e)
    ELSE IF Truthy(ActionsToken(e)) THEN ActionsToken(e)
    ELSE FirstTokenFile(temp_files, f)

get_github_token(e, f) ==
    IF Truthy(FirstTruthyEnv(token_names, e)) THEN FirstTruthyEnv(token_names, e)
    ELSE IF Truthy(ActionsToken(e)) THEN ActionsToken(e)
    ELSE FirstTokenFile(temp_files, f)

\* make_github_api_call: the first variable with token and token.strip().
RECURSIVE direct_auth_token_from(_, _)
direct_auth_token_from(names, e) ==
    IF names = <<>> THEN None
    ELSE LET t == EnvGet(e, Head(names)) IN
         IF Truthy(t) /\ Truthy(Strip(t)) THEN Strip(t)
         ELSE direct_auth_token_from(Tail(names), e)

direct_auth_token(e) == direct_auth_token_from(direct_env_vars, e)

\* a or b or c: the first truthy operand, else the last operand.
RECURSIVE PyOr(_, _)
PyOr(names, e) ==
    IF Len(names) = 1 THEN EnvGet(e, Head(names))
    ELSE IF Truthy(EnvGet(e, Head(names))) THEN EnvGet(e, Head(names))
    ELSE PyOr(Tail(names), e)

final_github_token(e) == PyOr(final_env_vars, e)

\* ------------------------------------------------------ release records

\* main: KEEP_RELEASE and KEEP_TAG, the same in the four scripts.
KEEP_RELEASE == "Toki Pona Anki Deck 2025.05.29-05.13.41"
KEEP_TAG == "v2025.05.29-05.13.41"

\* The name of a release that is not the keep release.
OtherName == "Toki Pona Anki Deck 2025.05.28-14.22.15"

\* The tag of the release with id k when it does not carry KEEP_TAG: tags
\* identify releases on the remote, so every id has a tag of its own.
OtherTags ==
    << "v2025.05.28-14.22.15", "v2025.05.28-13.45.32", "v2025.05.28-12.18.44",
       "v2025.05.28-11.55.21", "v2025.05.28-10.33.17", "v2025.05.28-09.27.58" >>

ReleaseNames == {KEEP_RELEASE, OtherName}

\* The remote release lists of length n: the release at position k has id k.
RemoteListsOfLen(n) ==
    { [k \in 1..n |->
         [id |-> k, name |-> f[k].name,
          tag |-> IF f[k].keepTag THEN KEEP_TAG ELSE OtherTags[k]]] :
      f \in [1..n -> [name : ReleaseNames, keepTag : BOOLEAN]] }

RemoteLists == UNION { RemoteListsOfLen(n) : n \in 0..MaxReleases }

\* if release['name'] == KEEP_RELEASE and release['tagName'] == KEEP_TAG
\* (a faulty variant: both required).
IsKeepMatchBoth(release) ==
    release.name = KEEP_RELEASE /\ release.tag = KEEP_TAG

\* if release['tagName'] == KEEP_TAG (a faulty variant: the name is not looked at).
IsKeepMatchTagOnly(release) == release.tag = KEEP_TAG

\* if release['name'] == KEEP_RELEASE or release['tagName'] == KEEP_TAG
IsKeepMatch(release) ==
    release.name = KEEP_RELEASE \/ release.tag = KEEP_TAG

\* A faulty variant: the append is not in the else branch, so every release is
\* appended.
PartitionDeleteEvery(rs) == rs

\* The loop "for release in releases": the else branch appends the release.
RECURSIVE PartitionDelete(_)
PartitionDelete(rs) ==
    IF rs = <<>> THEN <<>>
    ELSE IF IsKeepMatch(Head(rs)) THEN PartitionDelete(Tail(rs))
    ELSE <<Head(rs)>> \o PartitionDelete(Tail(rs))

\* The same loop: keep_release_found is set by the if branch.
RECURSIVE PartitionKeepFound(_)
PartitionKeepFound(rs) ==
    IF rs = <<>> THEN FALSE
    ELSE IF IsKeepMatch(Head(rs)) THEN TRUE
    ELSE PartitionKeepFound(Tail(rs))

\* ------------------------------------------------------------ the remote

\* DELETE /releases/{id}: the release list without the release of that id.
RemoteDeleteById(rem, id) == SelectSeq(rem, LAMBDA r : r.id # id)

\* gh release delete <tag>: the release list without the release of that tag.
RemoteDeleteByTag(rem, tag) == SelectSeq(rem, LAMBDA r : r.tag # tag)

HasId(rem, id) == \E k \in 1..Len(rem) : rem[k].id = id
HasTag(rem, tag) == \E k \in 1..Len(rem) : rem[k].tag = tag

\* What a listing call can come to: the list, a failed call (network,
\* authentication, HTTP error), or a body that is no JSON.
ListOutcomes == {"ok", "error", "garbage"}

\* What the user can type at a prompt of cleanup_releases.py.
Responses == {"y", "Y", "n", "yes", ""}

\* A faulty variant: a response that starts with y is taken for y.
LowerFirstLetter(s) == IF s \in {"Y", "yes"} THEN "y" ELSE s

\* str.lower() on the responses.
Lower(s) == IF s = "Y" THEN "y" ELSE s

Variants == {"cli", "api", "direct", "final"}

\* The transport of a variant: a gh subprocess or an HTTP request.
Transport(v) == IF v \in {"cli", "final"} THEN "gh" ELSE "http"

\* -------------------------------------------------------------- state

VARIABLES
    variant,            \* the script that runs
    environ,            \* the environment the script is started in
    files,              \* the token files: Missing, Unreadable or the content
    os_environ,         \* os.environ of the running process
    remote,             \* the releases on the remote, in listing order
    pc,                 \* the position of the run in main
    token,              \* the credential main resolved (api, final)
    releases,           \* main: releases
    releases_to_delete, \* main: releases_to_delete
    keep_release_found, \* main: keep_release_found
    next_index,         \* the position of "for release in releases_to_delete"
    success_count,      \* main: success_count
    failed_count,       \* main: failed_count
    exit_code,          \* the exit status, once pc = "exited"
    ending,             \* the place main ended at, once pc = "exited"
    warned,             \* the keep-not-found warning was printed
    summary,            \* what the summary printed
    answers,            \* the responses typed at the prompts of this run
    authOutcome,        \* the outcome of "gh auth status" in this run
    listOutcome,        \* the outcome of the listing call of this run
    deleteCalls,        \* the delete calls this run issued, in order
    remoteAtStart,      \* the remote when this run started
    run,                \* "first" or "second"
    relation,           \* how the second run relates to the first
    firstRun,           \* the first run, as it ended
    word,               \* the word a renderer is called with
    font_arg,           \* generate_images: the font_path argument
    textbbox,           \* whether ImageDraw.textbbox works: "ok", "raises"
    typeface,           \* whether the typeface file loads: "loads", "fails"
    renderings,         \* the renderer calls made so far, with what they gave
    words_file,         \* toki_pona_words.json: its state and its entries
    words_data,         \* create_anki_deck: words_data, in the file's order
    fs,                 \* the font files: "missing", "empty" or "valid"
    requests,           \* download_font: the URLs requested by this call
    url_index,          \* download_font: the position in font_urls
    font_path,          \* create_anki_deck: font_path (<<>> for None)
    font_calls,         \* the calls of download_font, with what they gave
    word_index,         \* the position of the loop over words_data
    word_to_image,      \* create_anki_deck: word_to_image
    image_files,        \* the image files written, with their state
    notes,              \* the notes added to the deck
    package,            \* the file OUTPUT_FILE names
    reported,           \* the number printed after "Number of cards"
    unicode_char,       \* test_unicode_sitelen_pona: unicode_char
    invocations,        \* the runs of cleanup_releases_api.py at the same time
    font_response       \* a font downloader: what the latest request gave

inputVars == <<variant, environ, files>>
localVars ==
    <<token, releases, releases_to_delete, keep_release_found, next_index,
      success_count, failed_count, warned, summary, answers>>
exitVars == <<exit_code, ending>>
callVars == <<authOutcome, listOutcome, deleteCalls>>
runVars == <<remoteAtStart, run, relation, firstRun, invocations>>
\* The variables of create_anki_deck besides pc.
deckVars ==
    <<words_file, words_data, fs, requests, url_index, font_path, font_calls,
      word_index, word_to_image, image_files, notes, package, reported,
      font_response>>
buildVars ==
    <<word, font_arg, textbbox, typeface, renderings, deckVars, unicode_char>>

vars ==
    <<variant, environ, files, os_environ, remote, pc, token, releases,
      releases_to_delete, keep_release_found, next_index, success_count,
      failed_count, exit_code, ending, warned, summary, answers, authOutcome,
      listOutcome, deleteCalls, remoteAtStart, run, relation, firstRun,
      word, font_arg, textbbox, typeface, renderings, words_file, words_data,
      fs, requests, url_index, font_path, font_calls, word_index,
      word_to_image, image_files, notes, package, reported, unicode_char,
      invocations, font_response>>

\* -------------------------------------------------- initial environments

NoEnv == [n \in EnvNames |-> None]
NoFiles == [p \in FileNames |-> Missing]

EnvWith(name, value) == [NoEnv EXCEPT ![name] = value]
FilesWith(path, content) == [NoFiles EXCEPT ![path] = content]

\* The environments a reconciler run is started in: no credential at all, a
\* token in the variable every script reads, a token in a variable only
\* get_github_token reads, a blank GH_TOKEN, and a token in a token file.
EnvChoices ==
    { [environ |-> NoEnv, files |-> NoFiles],
      [environ |-> EnvWith("GITHUB_TOKEN", <<"a">>), files |-> NoFiles],
      [environ |-> EnvWith("COPILOT_GITHUB_TOKEN", <<"a">>), files |-> NoFiles],
      [environ |-> EnvWith("GH_TOKEN", <<" ">>), files |-> NoFiles],
      [environ |-> NoEnv, files |-> FilesWith("/tmp/github_token", <<"a", " ">>)] }

NoSummary == [printed |-> FALSE, kept |-> FALSE, verdict |-> "none"]

NoRun ==
    [variant |-> "none", exit_code |-> 0, ending |-> "none",
     authOutcome |-> "none", listOutcome |-> "none", deleteCalls |-> <<>>,
     releases |-> <<>>, releases_to_delete |-> <<>>, failed_count |-> 0,
     success_count |-> 0, answers |-> <<>>, remoteAtStart |-> <<>>,
     remoteAtEnd |-> <<>>]

\* The state of main's locals before main has run.
FreshLocals ==
    /\ token = None
    /\ releases = <<>>
    /\ releases_to_delete = <<>>
    /\ keep_release_found = FALSE
    /\ next_index = 1
    /\ success_count = 0
    /\ failed_count = 0
    /\ warned = FALSE
    /\ summary = NoSummary
    /\ answers = <<>>
    /\ exit_code = 0
    /\ ending = "none"
    /\ authOutcome = "none"
    /\ listOutcome = "none"
    /\ deleteCalls = <<>>

\* generate_anki_deck.py does not run.
NoDeck ==
    /\ words_file = [state |-> "missing", entries |-> <<>>]
    /\ words_data = <<>>
    /\ fs = <<>>
    /\ requests = <<>>
    /\ url_index = 1
    /\ font_path = <<>>
    /\ font_calls = <<>>
    /\ word_index = 1
    /\ word_to_image = <<>>
    /\ image_files = <<>>
    /\ notes = <<>>
    /\ package = [kind |-> "absent", notes |-> <<>>, media_files |-> <<>>]
    /\ reported = 0
    /\ font_response = "none"

\* None of the generation scripts runs and no renderer has been called.
NoBuild ==
    /\ NoDeck
    /\ unicode_char = <<>>
    /\ word = <<>>
    /\ font_arg = "none"
    /\ textbbox = "ok"
    /\ typeface = "loads"
    /\ renderings = <<>>

Init ==
    /\ NoBuild
    /\ variant \in Variants
    /\ \E c \in EnvChoices : environ = c.environ /\ files = c.files
    /\ os_environ = environ
    /\ remote \in RemoteLists
    /\ remoteAtStart = remote
    /\ pc = "start"
    /\ FreshLocals
    /\ run = "first"
    /\ relation = "none"
    /\ firstRun = NoRun
    /\ invocations = <<>>

\* ------------------------------------------------------- step helpers

\* sys.exit(code) or "return code" from main.
Exit(code, why) == pc' = "exited" /\ exit_code' = code /\ ending' = why

Goto(p) == pc' = p /\ UNCHANGED exitVars

\* A second run that is compared with the first meets the outcomes the first
\* run met: the same answer of "gh auth status", of the listing call and of
\* the delete call for each release.
ReplayAuth(ok) ==
    (relation = "comparison" /\ firstRun.authOutcome # "none")
        => (ok <=> firstRun.authOutcome = "ok")

ReplayList(outcome) ==
    (relation = "comparison" /\ firstRun.listOutcome # "none")
        => outcome = firstRun.listOutcome

ReplayDelete(id, ok) ==
    relation = "comparison" =>
        \A k \in 1..Len(firstRun.deleteCalls) :
            firstRun.deleteCalls[k].id = id => ok = firstRun.deleteCalls[k].ok

\* ------------------------------------------- authentication and token

\* cleanup_releases.main: run_command("gh auth status").
CliAuthCheck ==
    /\ variant = "cli"
    /\ pc = "start"
    /\ \E ok \in BOOLEAN :
        /\ ReplayAuth(ok)
        /\ authOutcome' = (IF ok THEN "ok" ELSE "failed")
        /\ IF ok THEN Goto("list") ELSE Exit(1, "auth_failed")
    /\ UNCHANGED <<inputVars, os_environ, remote, localVars, listOutcome,
                   deleteCalls, runVars>>
    /\ UNCHANGED buildVars

\* cleanup_releases_api.main: token = get_github_token(); if not token: exit.
ApiTokenCheck ==
    /\ variant = "api"
    /\ pc = "start"
    /\ token' = get_github_token(os_environ, files)
    /\ IF Truthy(token') THEN Goto("list") ELSE Exit(1, "no_token")
    /\ UNCHANGED <<inputVars, os_environ, remote, releases,
                   releases_to_delete, keep_release_found, next_index,
                   success_count, failed_count, warned, summary, answers,
                   callVars, runVars>>
    /\ UNCHANGED buildVars

\* cleanup_releases_final.main: the token of the environment, exported as
\* GH_TOKEN, or "return 1".
FinalTokenCheck ==
    /\ variant = "final"
    /\ pc = "start"
    /\ token' = final_github_token(os_environ)
    /\ IF Truthy(token')
       THEN /\ os_environ' = [os_environ EXCEPT !["GH_TOKEN"] = token']
            /\ Goto("auth")
       ELSE /\ UNCHANGED os_environ
            /\ Exit(1, "no_token")
    /\ UNCHANGED <<inputVars, remote, releases, releases_to_delete,
                   keep_release_found, next_index, success_count,
                   failed_count, warned, summary, answers, callVars, runVars>>
    /\ UNCHANGED buildVars

\* cleanup_releases_final.main: run_gh_command("gh auth status").
FinalAuthCheck ==
    /\ variant = "final"
    /\ pc = "auth"
    /\ \E ok \in BOOLEAN :
        /\ ReplayAuth(ok)
        /\ authOutcome' = (IF ok THEN "ok" ELSE "failed")
        /\ IF ok THEN Goto("list") ELSE Exit(1, "auth_failed")
    /\ UNCHANGED <<inputVars, os_environ, remote, localVars, listOutcome,
                   deleteCalls, runVars>>
    /\ UNCHANGED buildVars

\* ------------------------------------------------------------- listing

\* GET .../releases, gh release list: the first page of the release list.
RemotePage(rem) ==
    SubSeq(rem, 1, IF Len(rem) < PageSize THEN Len(rem) ELSE PageSize)

\* get_releases: the parsed list of a call that succeeded, [] otherwise.
ListedReleases(outcome, rem) ==
    IF outcome = "ok" THEN RemotePage(rem) ELSE <<>>

\* cleanup_releases, cleanup_releases_api: json.loads / response.json()
\* raises on a body that is no JSON (the uncaught exception ends the process
\* with status 1), and main exits 1 on "not releases".
UncaughtListEnding(outcome, rs) ==
    IF outcome = "garbage" THEN "crashed"
    ELSE IF rs = <<>> THEN "no_releases"
    ELSE "go"

\* cleanup_releases_direct: get_releases catches the JSONDecodeError and
\* returns [], and main returns 1 on "not releases".
DirectListEnding(outcome, rs) ==
    IF rs = <<>> THEN "no_releases" ELSE "go"

\* A faulty variant: main goes on when the gh command failed.
FinalListEndingUnchecked(outcome, rs) ==
    IF outcome = "garbage" THEN "parse_failed" ELSE "go"

\* cleanup_releases_final: "if releases_output is None: return 1" and
\* "except json.JSONDecodeError: return 1"; a parsed list goes on.
FinalListEnding(outcome, rs) ==
    IF outcome = "error" THEN "list_failed"
    ELSE IF outcome = "garbage" THEN "parse_failed"
    ELSE "go"

\* cleanup_releases.get_releases and main's "if not releases": a failed
\* command gives [], json.loads raises on a body that is no JSON (the
\* exception ends the process with status 1), and an empty list exits 1.
CliListReleases ==
    /\ variant = "cli"
    /\ pc = "list"
    /\ \E outcome \in ListOutcomes :
        /\ ReplayList(outcome)
        /\ listOutcome' = outcome
        /\ releases' = ListedReleases(outcome, remote)
        /\ IF UncaughtListEnding(outcome, releases') = "go"
           THEN Goto("partition")
           ELSE Exit(1, UncaughtListEnding(outcome, releases'))
    /\ UNCHANGED <<inputVars, os_environ, remote, token, releases_to_delete,
                   keep_release_found, next_index, success_count,
                   failed_count, warned, summary, answers, authOutcome,
                   deleteCalls, runVars>>
    /\ UNCHANGED buildVars

\* cleanup_releases_api.get_releases and main's "if not releases": a failed
\* request gives [], response.json() raises on a body that is no JSON.
ApiListReleases ==
    /\ variant = "api"
    /\ pc = "list"
    /\ \E outcome \in ListOutcomes :
        /\ ReplayList(outcome)
        /\ listOutcome' = outcome
        /\ releases' = ListedReleases(outcome, remote)
        /\ IF UncaughtListEnding(outcome, releases') = "go"
           THEN Goto("partition")
           ELSE Exit(1, UncaughtListEnding(outcome, releases'))
    /\ UNCHANGED <<inputVars, os_environ, remote, token, releases_to_delete,
                   keep_release_found, next_index, success_count,
                   failed_count, warned, summary, answers, authOutcome,
                   deleteCalls, runVars>>
    /\ UNCHANGED buildVars

\* cleanup_releases_direct.get_releases and main's "if not releases": the
\* request is sent with or without an Authorization header; a failed
\* request and a body that is no JSON both give [], and main returns 1.
DirectListReleases ==
    /\ variant = "direct"
    /\ pc = "start"
    /\ \E outcome \in ListOutcomes :
        /\ ReplayList(outcome)
        /\ listOutcome' = outcome
        /\ releases' = ListedReleases(outcome, remote)
        /\ IF DirectListEnding(outcome, releases') = "go"
           THEN Goto("partition")
           ELSE Exit(1, DirectListEnding(outcome, releases'))
    /\ UNCHANGED <<inputVars, os_environ, remote, token, releases_to_delete,
                   keep_release_found, next_index, success_count,
                   failed_count, warned, summary, answers, authOutcome,
                   deleteCalls, runVars>>
    /\ UNCHANGED buildVars

\* cleanup_releases_final.main: "gh api .../releases": None returns 1, a
\* JSONDecodeError returns 1, every parsed list (the empty one too) goes on.
FinalListReleases ==
    /\ variant = "final"
    /\ pc = "list"
    /\ \E outcome \in ListOutcomes :
        /\ ReplayList(outcome)
        /\ listOutcome' = outcome
        /\ releases' = ListedReleases(outcome, remote)
        /\ IF FinalListEnding(outcome, releases') = "go"
           THEN Goto("partition")
           ELSE Exit(1, FinalListEnding(outcome, releases'))
    /\ UNCHANGED <<inputVars, os_environ, remote, token, releases_to_delete,
                   keep_release_found, next_index, success_count,
                   failed_count, warned, summary, answers, authOutcome,
                   deleteCalls, runVars>>
    /\ UNCHANGED buildVars

\* ----------------------------------------------------------- partition

\* main: "Find releases to delete", the same loop in the four scripts.
PartitionReleases ==
    /\ pc = "partition"
    /\ releases_to_delete' = PartitionDelete(releases)
    /\ keep_release_found' = PartitionKeepFound(releases)
    /\ Goto("guard")
    /\ UNCHANGED <<inputVars, os_environ, remote, token, releases,
                   next_index, success_count, failed_count, warned, summary,
                   answers, callVars, runVars>>
    /\ UNCHANGED buildVars

\* --------------------------------------------------------------- guard

\* cleanup_releases.main: "if not keep_release_found": warn and ask; any
\* response but y or Y exits 1.
CliKeepNotFoundPrompt ==
    /\ variant = "cli"
    /\ pc = "guard"
    /\ IF keep_release_found
       THEN /\ Goto("plan")
            /\ UNCHANGED <<warned, answers>>
       ELSE /\ warned' = TRUE
            /\ \E response \in Responses :
                /\ answers' = Append(answers, response)
                /\ IF Lower(response) # "y"
                   THEN Exit(1, "declined_continue")
                   ELSE Goto("plan")
    /\ UNCHANGED <<inputVars, os_environ, remote, token, releases,
                   releases_to_delete, keep_release_found, next_index,
                   success_count, failed_count, summary, callVars, runVars>>
    /\ UNCHANGED buildVars

\* cleanup_releases_api, _direct, _final main: "if not keep_release_found":
\* print the warning and go on.
KeepNotFoundWarning ==
    /\ variant \in {"api", "direct", "final"}
    /\ pc = "guard"
    /\ warned' = ~keep_release_found
    /\ Goto("plan")
    /\ UNCHANGED <<inputVars, os_environ, remote, token, releases,
                   releases_to_delete, keep_release_found, next_index,
                   success_count, failed_count, summary, answers, callVars,
                   runVars>>
    /\ UNCHANGED buildVars

\* main: "if not releases_to_delete": exit 0; else the plan is printed and
\* the counters are set to 0 (cleanup_releases asks for confirmation first).
NothingToDeleteCheck ==
    /\ pc = "plan"
    /\ IF releases_to_delete = <<>> THEN Exit(0, "nothing_to_delete")
       ELSE IF variant = "cli" THEN Goto("confirm")
       ELSE Goto("delete")
    /\ UNCHANGED <<inputVars, os_environ, remote, localVars, callVars,
                   runVars>>
    /\ UNCHANGED buildVars

\* cleanup_releases.main: "Are you sure ...": any response but y or Y exits 0.
CliConfirmDeletion ==
    /\ variant = "cli"
    /\ pc = "confirm"
    /\ \E response \in Responses :
        /\ answers' = Append(answers, response)
        /\ IF Lower(response) # "y"
           THEN Exit(0, "declined_confirm")
           ELSE Goto("delete")
    /\ UNCHANGED <<inputVars, os_environ, remote, token, releases,
                   releases_to_delete, keep_release_found, next_index,
                   success_count, failed_count, warned, summary, callVars,
                   runVars>>
    /\ UNCHANGED buildVars

\* --------------------------------------------------------- delete loop

\* A faulty variant: the loop is left at the first failed delete.
LoopAfterFailFast(ok, index, n) ==
    IF ~ok \/ index = n THEN "summary" ELSE "delete"

\* "for release in releases_to_delete": the loop goes on to the next
\* candidate whatever the delete call returned, and ends after the last.
LoopAfter(ok, index, n) == IF index = n THEN "summary" ELSE "delete"

\* What the delete call returns to delete_release: the response (the
\* command's output) of a call that succeeded, None of one that failed.
DeleteResponse(ok) == IF ok THEN <<"204">> ELSE None

\* A faulty variant: "response is None".
delete_release_inverted(response) == response = None

\* delete_release: "return response is not None" (cleanup_releases and
\* cleanup_releases_final: "result is not None").
delete_release(response) == response # None

\* A faulty variant: a delete that succeeded is not counted.
SuccessCountUnchanged(deleted, success) == success

\* if delete_release(...): success_count += 1 / else: failed_count += 1
SuccessCountAfter(deleted, success) == IF deleted THEN success + 1 ELSE success
FailedCountAfter(deleted, failed) == IF deleted THEN failed ELSE failed + 1

\* A faulty variant: a candidate whose delete failed is tried again.
NextCandidateRetry(deleted, index) == IF deleted THEN index + 1 ELSE index

\* "for release in releases_to_delete": the loop moves to the next candidate
\* whatever delete_release returned.
NextCandidate(deleted, index) == index + 1

\* One iteration of the delete loop.  by is "tag" (gh release delete <tag>)
\* or "id" (DELETE .../releases/<id>); the remote accepts a delete only of a
\* release it holds and, over HTTP, only with an Authorization header.
DeleteIteration(by, authorized) ==
    /\ pc = "delete"
    /\ next_index <= Len(releases_to_delete)
    /\ LET release == releases_to_delete[next_index]
           present == IF by = "tag" THEN HasTag(remote, release.tag)
                      ELSE HasId(remote, release.id)
           Deleted(ok) == delete_release(DeleteResponse(ok))
       IN  \E ok \in BOOLEAN :
            /\ ok => (present /\ authorized)
            /\ ReplayDelete(release.id, ok)
            /\ deleteCalls' =
                   Append(deleteCalls,
                          [id |-> release.id, tag |-> release.tag,
                           by |-> by, ok |-> ok, reported |-> Deleted(ok)])
            /\ remote' =
                   IF ~ok THEN remote
                   ELSE IF by = "tag"
                        THEN RemoteDeleteByTag(remote, release.tag)
                        ELSE RemoteDeleteById(remote, release.id)
            /\ success_count' = SuccessCountAfter(Deleted(ok), success_count)
            /\ failed_count' = FailedCountAfter(Deleted(ok), failed_count)
            /\ pc' = LoopAfter(ok, next_index, Len(releases_to_delete))
            /\ next_index' = NextCandidate(Deleted(ok), next_index)
    /\ UNCHANGED <<inputVars, os_environ, token, releases,
                   releases_to_delete, keep_release_found, warned, summary,
                   answers, exitVars, authOutcome, listOutcome, runVars>>
    /\ UNCHANGED buildVars

\* cleanup_releases: delete_release(release['tagName']).
CliDeleteRelease == variant = "cli" /\ DeleteIteration("tag", TRUE)

\* cleanup_releases_api: delete_release(release['id'], token).
ApiDeleteRelease == variant = "api" /\ DeleteIteration("id", Truthy(token))

\* cleanup_releases_direct: delete_release(release['id']); the header is
\* set only when make_github_api_call finds a token.
DirectDeleteRelease ==
    /\ variant = "direct"
    /\ DeleteIteration("id", Truthy(direct_auth_token(os_environ)))

\* cleanup_releases_final: gh api .../releases/<id> --method DELETE.
FinalDeleteRelease == variant = "final" /\ DeleteIteration("id", TRUE)

\* ------------------------------------------------------------- summary

\* A faulty variant: every script ends with status 0.
ExitStatusAlwaysZero(failed) == 0

\* cleanup_releases_direct, _final: return 0 if failed_count == 0 else 1
ExitStatusByFailures(failed) == IF failed = 0 THEN 0 ELSE 1

\* cleanup_releases.main: the summary; main returns and the status is 0.
CliSummary ==
    /\ variant = "cli"
    /\ pc = "summary"
    /\ summary' =
           [printed |-> TRUE, kept |-> TRUE,
            verdict |-> IF failed_count = 0 THEN "all_deleted"
                        ELSE "some_failed"]
    /\ Exit(0, "summary")
    /\ UNCHANGED <<inputVars, os_environ, remote, token, releases,
                   releases_to_delete, keep_release_found, next_index,
                   success_count, failed_count, warned, answers, callVars,
                   runVars>>
    /\ UNCHANGED buildVars

\* cleanup_releases_api.main: the summary; main returns and the status is 0.
ApiSummary ==
    /\ variant = "api"
    /\ pc = "summary"
    /\ summary' =
           [printed |-> TRUE, kept |-> keep_release_found,
            verdict |-> IF failed_count = 0 THEN "all_deleted"
                        ELSE "some_failed"]
    /\ Exit(0, "summary")
    /\ UNCHANGED <<inputVars, os_environ, remote, token, releases,
                   releases_to_delete, keep_release_found, next_index,
                   success_count, failed_count, warned, answers, callVars,
                   runVars>>
    /\ UNCHANGED buildVars

\* cleanup_releases_direct.main: the summary and the return value.
DirectSummary ==
    /\ variant = "direct"
    /\ pc = "summary"
    /\ summary' =
           [printed |-> TRUE, kept |-> keep_release_found,
            verdict |-> IF failed_count = 0 /\ success_count > 0
                        THEN "all_deleted"
                        ELSE IF failed_count > 0 THEN "some_failed"
                        ELSE "none"]
    /\ Exit(ExitStatusByFailures(failed_count), "summary")
    /\ UNCHANGED <<inputVars, os_environ, remote, token, releases,
                   releases_to_delete, keep_release_found, next_index,
                   success_count, failed_count, warned, answers, callVars,
                   runVars>>
    /\ UNCHANGED buildVars

\* cleanup_releases_final.main: the summary and the return value.
FinalSummary ==
    /\ variant = "final"
    /\ pc = "summary"
    /\ summary' =
           [printed |-> TRUE, kept |-> keep_release_found,
            verdict |-> IF failed_count = 0 /\ success_count > 0
                        THEN "completed"
                        ELSE IF success_count = 0 /\ failed_count = 0
                        THEN "no_action"
                        ELSE "partial"]
    /\ Exit(ExitStatusByFailures(failed_count), "summary")
    /\ UNCHANGED <<inputVars, os_environ, remote, token, releases,
                   releases_to_delete, keep_release_found, next_index,
                   success_count, failed_count, warned, answers, callVars,
                   runVars>>
    /\ UNCHANGED buildVars

\* ------------------------------------------------------ a second run

\* The run as it ended.
EndedRun ==
    [variant |-> variant, exit_code |-> exit_code, ending |-> ending,
     authOutcome |-> authOutcome, listOutcome |-> listOutcome,
     deleteCalls |-> deleteCalls, releases |-> releases,
     releases_to_delete |-> releases_to_delete,
     failed_count |-> failed_count, success_count |-> success_count,
     answers |-> answers, remoteAtStart |-> remoteAtStart,
     remoteAtEnd |-> remote]

\* A new process: main's locals are fresh and os.environ is the environment.
StartProcess ==
    /\ pc' = "start"
    /\ os_environ' = environ
    /\ token' = None
    /\ releases' = <<>>
    /\ releases_to_delete' = <<>>
    /\ keep_release_found' = FALSE
    /\ next_index' = 1
    /\ success_count' = 0
    /\ failed_count' = 0
    /\ warned' = FALSE
    /\ summary' = NoSummary
    /\ answers' = <<>>
    /\ exit_code' = 0
    /\ ending' = "none"
    /\ authOutcome' = "none"
    /\ listOutcome' = "none"
    /\ deleteCalls' = <<>>

\* The same script is run again against the remote the first run left.
RunAgain ==
    /\ pc = "exited"
    /\ run = "first"
    /\ run' = "second"
    /\ relation' = "succession"
    /\ firstRun' = EndedRun
    /\ remoteAtStart' = remote
    /\ UNCHANGED invocations
    /\ StartProcess
    /\ UNCHANGED <<inputVars, remote>>
    /\ UNCHANGED buildVars

\* Another script is run against the remote the first run started from, to
\* compare the two scripts on the same input.
RunOtherVariant ==
    /\ pc = "exited"
    /\ run = "first"
    /\ \E v \in Variants \ {variant} : variant' = v
    /\ run' = "second"
    /\ relation' = "comparison"
    /\ firstRun' = EndedRun
    /\ remote' = remoteAtStart
    /\ StartProcess
    /\ UNCHANGED <<environ, files, remoteAtStart, invocations>>
    /\ UNCHANGED buildVars

Next ==
    \/ CliAuthCheck
    \/ ApiTokenCheck
    \/ FinalTokenCheck
    \/ FinalAuthCheck
    \/ CliListReleases
    \/ ApiListReleases
    \/ DirectListReleases
    \/ FinalListReleases
    \/ PartitionReleases
    \/ CliKeepNotFoundPrompt
    \/ KeepNotFoundWarning
    \/ NothingToDeleteCheck
    \/ CliConfirmDeletion
    \/ CliDeleteRelease
    \/ ApiDeleteRelease
    \/ DirectDeleteRelease
    \/ FinalDeleteRelease
    \/ CliSummary
    \/ ApiSummary
    \/ DirectSummary
    \/ FinalSummary
    \/ RunAgain

Spec == Init /\ [][Next]_vars

\* The runs of one script followed by a run of another script on the same
\* input.
NextCompare ==
    \/ CliAuthCheck
    \/ ApiTokenCheck
    \/ FinalTokenCheck
    \/ FinalAuthCheck
    \/ CliListReleases
    \/ ApiListReleases
    \/ DirectListReleases
    \/ FinalListReleases
    \/ PartitionReleases
    \/ CliKeepNotFoundPrompt
    \/ KeepNotFoundWarning
    \/ NothingToDeleteCheck
    \/ CliConfirmDeletion
    \/ CliDeleteRelease
    \/ ApiDeleteRelease
    \/ DirectDeleteRelease
    \/ FinalDeleteRelease
    \/ CliSummary
    \/ ApiSummary
    \/ DirectSummary
    \/ FinalSummary
    \/ RunOtherVariant

SpecCompare == Init /\ [][NextCompare]_vars

\* ------------------------------------ the credential lookup on its own

\* The credential sources that are set: a variable that exists, a file that
\* exists.
SourcesSet ==
    Cardinality({n \in EnvNames : environ[n] # None})
        + Cardinality({p \in FileNames : files[p] # Missing})

\* The environment before any credential source is set.
InitToken ==
    /\ NoBuild
    /\ variant = "api"
    /\ environ = NoEnv
    /\ files = NoFiles
    /\ os_environ = environ
    /\ remote = <<>>
    /\ remoteAtStart = <<>>
    /\ pc = "setup"
    /\ FreshLocals
    /\ run = "first"
    /\ relation = "none"
    /\ firstRun = NoRun
    /\ invocations = <<>>

\* export NAME=value, before the script is started.
SetEnvironmentVariable ==
    /\ pc = "setup"
    /\ SourcesSet < MaxSources
    /\ \E n \in EnvNames, v \in TokenValues :
        /\ environ[n] = None
        /\ environ' = [environ EXCEPT ![n] = v]
    /\ os_environ' = environ'
    /\ UNCHANGED <<variant, files, remote, pc, localVars, exitVars, callVars,
                   runVars>>
    /\ UNCHANGED buildVars

\* A token file is put in place, with some content or unreadable.
CreateTokenFile ==
    /\ pc = "setup"
    /\ SourcesSet < MaxSources
    /\ \E p \in FileNames, c \in TokenValues \cup {Unreadable} :
        /\ files[p] = Missing
        /\ files' = [files EXCEPT ![p] = c]
    /\ UNCHANGED <<variant, environ, os_environ, remote, pc, localVars,
                   exitVars, callVars, runVars>>
    /\ UNCHANGED buildVars

\* python cleanup_releases_api.py
StartApiScript ==
    /\ pc = "setup"
    /\ pc' = "start"
    /\ UNCHANGED <<inputVars, os_environ, remote, localVars, exitVars,
                   callVars, runVars>>
    /\ UNCHANGED buildVars

NextToken ==
    \/ SetEnvironmentVariable
    \/ CreateTokenFile
    \/ StartApiScript
    \/ ApiTokenCheck

SpecToken == InitToken /\ [][NextToken]_vars

\* ============================================================== claims

\* The partition step of this run is done.
Partitioned ==
    \/ pc \in {"guard", "plan", "confirm", "delete", "summary"}
    \/ /\ pc = "exited"
       /\ ending \in {"declined_continue", "nothing_to_delete",
                      "declined_confirm", "summary"}

\* The delete loop of this run has ended.
LoopEnded == pc = "summary" \/ (pc = "exited" /\ ending = "summary")

Range(seq) == { seq[k] : k \in 1..Len(seq) }

\* The position of a release in a list that holds it once.
PositionIn(seq, r) == CHOOSE k \in 1..Len(seq) : seq[k] = r

\* C1: after the partition step of any variant, a listed record is a delete
\* candidate exactly when neither its name equals the keep name nor its tag
\* equals the keep tag (either equality alone makes it a keep match), every
\* candidate is a listed record, no record is a candidate twice, and the
\* candidates are in listing order.
Thm_C1 ==
    Partitioned =>
        /\ \A r \in Range(releases) :
               (r.name = KEEP_RELEASE \/ r.tag = KEEP_TAG)
                   <=> r \notin Range(releases_to_delete)
        /\ Range(releases_to_delete) \subseteq Range(releases)
        /\ Cardinality(Range(releases_to_delete)) = Len(releases_to_delete)
        /\ \A i, j \in 1..Len(releases_to_delete) :
               i < j =>
                   PositionIn(releases, releases_to_delete[i])
                       < PositionIn(releases, releases_to_delete[j])
        /\ keep_release_found <=>
               \E r \in Range(releases) :
                   r.name = KEEP_RELEASE \/ r.tag = KEEP_TAG

\* A listing with a record that matches by name only, one that matches by
\* tag only and two candidates, partitioned.
Wit_C1 ==
    /\ Partitioned
    /\ \E r \in Range(releases) : r.name = KEEP_RELEASE /\ r.tag # KEEP_TAG
    /\ \E r \in Range(releases) : r.name # KEEP_RELEASE /\ r.tag = KEEP_TAG
    /\ Len(releases_to_delete) >= 1
    /\ Len(releases) = Len(releases_to_delete) + 2
    /\ Len(remote) > Len(releases)

\* The releases of the remote a delete call addresses: by id, or by tag.
Addressed(call, rem) ==
    { r \in Range(rem) :
        IF call.by = "tag" THEN r.tag = call.tag ELSE r.id = call.id }

\* C2: in a run of any variant no delete call addresses a release whose name
\* equals the keep name or whose tag equals the keep tag, and every listed
\* release that matched the keep identity is still on the remote, during the
\* run and when it has ended, whatever the delete calls came to.
Thm_C2 ==
    /\ \A k \in 1..Len(deleteCalls) :
           \A r \in Addressed(deleteCalls[k], remoteAtStart) :
               r.name # KEEP_RELEASE /\ r.tag # KEEP_TAG
    /\ \A r \in Range(releases) :
           (r.name = KEEP_RELEASE \/ r.tag = KEEP_TAG) => r \in Range(remote)

\* A run that has ended after a delete call that succeeded and one that
\* failed, with a release listed that matches the keep name only.
Wit_C2 ==
    /\ pc = "exited"
    /\ \E r \in Range(releases) : r.name = KEEP_RELEASE /\ r.tag # KEEP_TAG
    /\ \E k \in 1..Len(deleteCalls) : deleteCalls[k].ok
    /\ \E k \in 1..Len(deleteCalls) : ~deleteCalls[k].ok

\* C3: when the delete loop has ended, one delete call was issued for every
\* candidate, in order, whether or not earlier calls failed; each failed call
\* is counted in failed_count, success_count is the number of calls that
\* succeeded, and success_count + failed_count = len(releases_to_delete).
Thm_C3 ==
    LoopEnded =>
        /\ Len(deleteCalls) = Len(releases_to_delete)
        /\ \A k \in 1..Len(deleteCalls) :
               deleteCalls[k].id = releases_to_delete[k].id
        /\ success_count + failed_count = Len(releases_to_delete)
        /\ success_count =
               Cardinality({k \in 1..Len(deleteCalls) : deleteCalls[k].ok})
        /\ failed_count =
               Cardinality({k \in 1..Len(deleteCalls) : ~deleteCalls[k].ok})

\* The loop has ended after a first call that failed and later calls, one of
\* which succeeded.
Wit_C3 ==
    /\ LoopEnded
    /\ Len(deleteCalls) >= 2
    /\ ~deleteCalls[1].ok
    /\ \E k \in 2..Len(deleteCalls) : deleteCalls[k].ok

\* The listing of this run was fetched and is exactly one keep record.
ListedOnlyKeep ==
    /\ listOutcome = "ok"
    /\ Len(releases) = 1
    /\ releases[1].name = KEEP_RELEASE \/ releases[1].tag = KEEP_TAG

\* C6: when the listing is exactly the keep record, the candidate set is
\* empty, no delete call is issued and the run ends with exit status 0.
Thm_C6 ==
    ListedOnlyKeep =>
        /\ releases_to_delete = <<>>
        /\ deleteCalls = <<>>
        /\ pc = "exited" => (exit_code = 0 /\ ending = "nothing_to_delete")

\* A run over a listing of one record that matches the keep name only has
\* ended.
Wit_C6 ==
    /\ ListedOnlyKeep
    /\ releases[1].tag # KEEP_TAG
    /\ pc = "exited"

\* C7: when the listing call fails or its response cannot be parsed, the run
\* has ended with a non-zero exit status and no delete call was issued.
Thm_C7 ==
    listOutcome \in {"error", "garbage"} =>
        /\ pc = "exited"
        /\ exit_code # 0
        /\ deleteCalls = <<>>
        /\ remote = remoteAtStart

\* The listing failed although the remote holds a release to delete.
Wit_C7 ==
    /\ listOutcome = "error"
    /\ variant = "final"
    /\ \E r \in Range(remote) : r.name # KEEP_RELEASE /\ r.tag # KEEP_TAG

\* No listed record matches the keep name or the keep tag.
NoKeepListed ==
    \A r \in Range(releases) : r.name # KEEP_RELEASE /\ r.tag # KEEP_TAG

\* C4: a run that partitioned a listing with no keep match has printed the
\* warning, is not ended at the guard, and ends only after a delete call
\* for every listed record.
CE_C4 ==
    (pc = "exited" /\ Partitioned /\ NoKeepListed) =>
        /\ warned
        /\ ending # "declined_continue"
        /\ Len(deleteCalls) = Len(releases)
        /\ \A k \in 1..Len(deleteCalls) : deleteCalls[k].id = releases[k].id

\* The first run listed the whole remote and ended with every candidate
\* deleted: it found nothing to delete, or every delete call succeeded.
FirstRunDeletedAll ==
    /\ firstRun.listOutcome = "ok"
    /\ firstRun.releases = firstRun.remoteAtStart
    /\ \/ firstRun.ending = "nothing_to_delete"
       \/ firstRun.ending = "summary" /\ firstRun.failed_count = 0

SecondRunIsNoOp ==
    /\ releases_to_delete = <<>>
    /\ deleteCalls = <<>>
    /\ remote = remoteAtStart

NoCredential ==
    /\ \A n \in EnvNames : environ[n] = None \/ environ[n] = <<>>
    /\ \A p \in FileNames : files[p] = Missing

\* C8: in a credential-using variant that finds no credential, no delete
\* request is ever issued.
CE_C8 ==
    (variant \in {"api", "direct", "final"} /\ NoCredential)
        => deleteCalls = <<>>

\* The order of the environment variables and of the token files, as the
\* claim gives them.
ClaimEnvOrder ==
    << "GITHUB_TOKEN", "RELEASE_GITHUB_TOKEN", "GH_TOKEN",
       "COPILOT_GITHUB_TOKEN", "ACTIONS_TOKEN", "INPUT_GITHUB_TOKEN",
       "INPUT_TOKEN" >>
ClaimFileOrder ==
    << "/home/runner/work/_temp/github_token", "/tmp/github_token",
       ".github_token" >>

\* The variables that are set and not empty, the files that can be read and
\* hold a character that is no whitespace, by their position in the order.
EnvHits ==
    { k \in 1..Len(ClaimEnvOrder) :
        /\ environ[ClaimEnvOrder[k]] # None
        /\ environ[ClaimEnvOrder[k]] # <<>> }
FileHits ==
    { k \in 1..Len(ClaimFileOrder) :
        LET c == files[ClaimFileOrder[k]] IN
        /\ c # Missing
        /\ c # Unreadable
        /\ \E i \in 1..Len(c) : c[i] \notin Whitespace }

First(S) == CHOOSE k \in S : \A j \in S : k <= j

\* C9: get_github_token returns the value of the first environment variable
\* of the order that is set and not empty; if there is none, the stripped
\* content of the first token file of the order that can be read and is not
\* empty once stripped; and None exactly when there is neither.  A file that
\* cannot be read is passed over.
Thm_C9 ==
    (variant = "api" /\ pc \in {"list", "exited"}) =>
        /\ EnvHits # {} => token = environ[ClaimEnvOrder[First(EnvHits)]]
        /\ (EnvHits = {} /\ FileHits # {}) =>
               /\ token = Strip(files[ClaimFileOrder[First(FileHits)]])
               /\ token # <<>>
               /\ token[1] \notin Whitespace
               /\ token[Len(token)] \notin Whitespace
        /\ token = None <=> (EnvHits = {} /\ FileHits = {})
        /\ token = None <=> (pc = "exited" /\ ending = "no_token")

\* The token came from the second file, stripped, past a first file that
\* cannot be read.
Wit_C9 ==
    /\ variant = "api"
    /\ pc = "list"
    /\ files[ClaimFileOrder[1]] = Unreadable
    /\ files[ClaimFileOrder[2]] = <<" ", "a">>
    /\ token = <<"a">>

\* The releases the delete calls of a run addressed, in order.
CallIds(calls) == [k \in 1..Len(calls) |-> calls[k].id]

\* Both runs had the credential every variant reads, an authenticated gh, and
\* a user who answered y at every prompt.
SameInputs ==
    /\ environ["GITHUB_TOKEN"] = <<"a">>
    /\ ending \notin {"auth_failed", "declined_continue", "declined_confirm"}
    /\ firstRun.ending
           \notin {"auth_failed", "declined_continue", "declined_confirm"}

\* C10: a gh-transport variant and an HTTP-transport variant, run on the same
\* remote set with the same credential and the same outcomes of the calls,
\* issue delete calls for the same releases in the same order and end with
\* the same exit status.
CE_C10 ==
    ( /\ pc = "exited"
      /\ run = "second"
      /\ relation = "comparison"
      /\ Transport(variant) # Transport(firstRun.variant)
      /\ SameInputs )
        => /\ CallIds(deleteCalls) = CallIds(firstRun.deleteCalls)
           /\ exit_code = firstRun.exit_code

\* C11: a listing that was fetched and holds no release is valid input: the
\* run issues no delete call and does not end in the fatal "no releases found
\* or failed to fetch" state with status 1.
CE_C11 ==
    ( /\ pc = "exited"
      /\ listOutcome = "ok"
      /\ releases = <<>> )
        => /\ deleteCalls = <<>>
           /\ ending # "no_releases"
           /\ exit_code = 0

\* ======================================================= glyph rendering

\* ------------------------------------------------------------- strings

\* str.upper() on one character.
Upper(c) ==
    LET lower == <<"a", "b", "c", "d", "e", "f", "g", "h", "i", "j", "k", "l",
                   "m", "n", "o", "p", "q", "r", "s", "t", "u", "v", "w", "x",
                   "y", "z">>
        upper == <<"A", "B", "C", "D", "E", "F", "G", "H", "I", "J", "K", "L",
                   "M", "N", "O", "P", "Q", "R", "S", "T", "U", "V", "W", "X",
                   "Y", "Z">>
    IN  IF \E i \in 1..26 : lower[i] = c
        THEN upper[CHOOSE i \in 1..26 : lower[i] = c]
        ELSE c

\* word[:n]
Prefix(s, n) == SubSeq(s, 1, IF Len(s) < n THEN Len(s) ELSE n)

\* -------------------------------------------------- the drawing library

\* One call of a method of ImageDraw.Draw: the coordinates (xy, flattened,
\* each divided by den), the angles of an arc, the text of draw.text and the
\* keyword arguments in the order they are written.
DrawCall(method, xy, angles, text, kw) ==
    [method |-> method, xy |-> xy, den |-> 1, angles |-> angles,
     text |-> text, kw |-> kw]

\* A call whose position is computed with "/ 2": the coordinates are kept as
\* numerators over 2.
DrawCallHalves(method, xy, angles, text, kw) ==
    [method |-> method, xy |-> xy, den |-> 2, angles |-> angles,
     text |-> text, kw |-> kw]

\* The keyword arguments the methods of ImageDraw.Draw take; a call with
\* another keyword raises TypeError.  arc takes fill and width, no outline.
DrawKeywords(method) ==
    CASE method = "arc" -> {"fill", "width"}
      [] method = "line" -> {"fill", "width", "joint"}
      [] method = "text" -> {"fill", "font"}
      [] OTHER -> {"fill", "outline", "width"}

\* The call is one the library accepts.
Accepted(call) ==
    \A i \in 1..Len(call.kw) : call.kw[i][1] \in DrawKeywords(call.method)

\* A faulty variant: the renderers draw on one canvas that is made once, so
\* that a call draws over what the call before it drew.
Image_reused(size) ==
    IF renderings = <<>> THEN [size |-> size, ops |-> <<>>]
    ELSE renderings[Len(renderings)].out.img

\* Image.new('RGB', size, color='white'): a blank canvas.
Image_new(size) == [size |-> size, ops |-> <<>>]

\* The canvas after a call that was accepted.
Draw(image, call) == [image EXCEPT !.ops = Append(@, call)]

\* Calling a recipe (a lambda of draw calls): the calls are made in the order
\* they are written, and the first one that raises ends the lambda.
RECURSIVE RunRecipe(_, _)
RunRecipe(calls, image) ==
    IF calls = <<>> THEN [img |-> image, raised |-> FALSE]
    ELSE IF ~Accepted(Head(calls)) THEN [img |-> image, raised |-> TRUE]
    ELSE RunRecipe(Tail(calls), Draw(image, Head(calls)))

\* ----------------------------------------------------------- typefaces

\* ImageFont.load_default()
load_default == [name |-> "default", size |-> 11]

\* ImageFont.truetype(font_path, size)
truetype(size) == [name |-> "typeface", size |-> size]

\* draw.textbbox((0, 0), text, font=font) as <<width, height>>: the default
\* font is a bitmap font of 6 pixels a character; a sitelen pona typeface
\* draws a word as one square glyph of the font size.
TextSize(font, text) ==
    IF font.name = "default" THEN <<6 * Len(text), font.size>>
    ELSE <<font.size, font.size>>

\* size=(200, 200), the canvas size of every call in the scripts.
DefaultSize == <<200, 200>>

\* What a renderer that raised leaves its caller with.
NoImage == [size |-> <<0, 0>>, ops |-> <<>>]

\* A renderer returned image, drawn by the part of the code named by.
Returned(image, by) == [img |-> image, raised |-> FALSE, by |-> by]

\* An exception left the renderer.
Raised(by) == [img |-> NoImage, raised |-> TRUE, by |-> by]

\* ----------------------------------------------------- generate_images

\* generate_proper_geometric_sitelen_pona: sitelen_designs, word to recipe.
sitelen_designs ==
       (<<"a">> :> <<
         DrawCall("ellipse", <<60, 85, 140, 115>>, <<>>, <<>>,
                  <<<<"outline", "black">>, <<"width", "4">>>>) >>)
    @@ (<<"e">> :> <<
         DrawCall("line", <<80, 100, 120, 100>>, <<>>, <<>>,
                  <<<<"fill", "black">>, <<"width", "6">>>>) >>)
    @@ (<<"e", "n">> :> <<
         DrawCall("line", <<70, 90, 110, 90>>, <<>>, <<>>,
                  <<<<"fill", "black">>, <<"width", "4">>>>),
         DrawCall("line", <<90, 110, 130, 110>>, <<>>, <<>>,
                  <<<<"fill", "black">>, <<"width", "4">>>>) >>)
    @@ (<<"l", "a">> :> <<
         DrawCall("polygon", <<100, 70, 80, 110, 120, 110>>, <<>>, <<>>,
                  <<<<"outline", "black">>, <<"width", "3">>>>) >>)
    @@ (<<"l", "i">> :> <<
         DrawCall("line", <<100, 70, 100, 130>>, <<>>, <<>>,
                  <<<<"fill", "black">>, <<"width", "6">>>>) >>)
    @@ (<<"o">> :> <<
         DrawCall("ellipse", <<75, 75, 125, 125>>, <<>>, <<>>,
                  <<<<"outline", "black">>, <<"width", "4">>>>) >>)
    @@ (<<"p", "i">> :> <<
         DrawCall("line", <<85, 80, 85, 120>>, <<>>, <<>>,
                  <<<<"fill", "black">>, <<"width", "4">>>>),
         DrawCall("line", <<115, 80, 115, 120>>, <<>>, <<>>,
                  <<<<"fill", "black">>, <<"width", "4">>>>) >>)
    @@ (<<"m", "i">> :> <<
         DrawCall("polygon", <<100, 70, 85, 110, 115, 110>>, <<>>, <<>>,
                  <<<<"fill", "black">>>>) >>)
    @@ (<<"s", "i", "n", "a">> :> <<
         DrawCall("polygon", <<100, 130, 85, 90, 115, 90>>, <<>>, <<>>,
                  <<<<"fill", "black">>>>) >>)
    @@ (<<"o", "n", "a">> :> <<
         DrawCall("ellipse", <<85, 85, 115, 115>>, <<>>, <<>>,
                  <<<<"fill", "black">>>>) >>)
    @@ (<<"n", "i">> :> <<
         DrawCall("rectangle", <<85, 85, 115, 115>>, <<>>, <<>>,
                  <<<<"fill", "black">>>>) >>)
    @@ (<<"i", "j", "o">> :> <<
         DrawCall("ellipse", <<80, 80, 120, 120>>, <<>>, <<>>,
                  <<<<"outline", "black">>, <<"width", "4">>>>) >>)
    @@ (<<"n", "i", "m", "i">> :> <<
         DrawCall("rectangle", <<70, 85, 130, 105>>, <<>>, <<>>,
                  <<<<"outline", "black">>, <<"width", "3">>>>) >>)
    @@ (<<"p", "o", "n", "a">> :> <<
         DrawCall("ellipse", <<75, 75, 125, 125>>, <<>>, <<>>,
                  <<<<"outline", "black">>, <<"width", "3">>>>),
         DrawCall("ellipse", <<95, 95, 105, 105>>, <<>>, <<>>,
                  <<<<"fill", "black">>>>) >>)
    @@ (<<"i", "k", "e">> :> <<
         DrawCall("line", <<80, 80, 120, 120>>, <<>>, <<>>,
                  <<<<"fill", "black">>, <<"width", "4">>>>),
         DrawCall("line", <<80, 120, 120, 80>>, <<>>, <<>>,
                  <<<<"fill", "black">>, <<"width", "4">>>>) >>)
    @@ (<<"s", "u", "l", "i">> :> <<
         DrawCall("rectangle", <<70, 70, 130, 130>>, <<>>, <<>>,
                  <<<<"fill", "black">>>>) >>)
    @@ (<<"l", "i", "l", "i">> :> <<
         DrawCall("rectangle", <<90, 90, 110, 110>>, <<>>, <<>>,
                  <<<<"fill", "black">>>>) >>)
    @@ (<<"m", "u", "t", "e">> :> <<
         DrawCall("ellipse", <<75, 85, 95, 105>>, <<>>, <<>>,
                  <<<<"fill", "black">>>>),
         DrawCall("ellipse", <<105, 85, 125, 105>>, <<>>, <<>>,
                  <<<<"fill", "black">>>>),
         DrawCall("ellipse", <<90, 105, 110, 125>>, <<>>, <<>>,
                  <<<<"fill", "black">>>>) >>)
    @@ (<<"w", "a", "n">> :> <<
         DrawCall("ellipse", <<90, 90, 110, 110>>, <<>>, <<>>,
                  <<<<"fill", "black">>>>) >>)
    @@ (<<"t", "u">> :> <<
         DrawCall("ellipse", <<80, 90, 100, 110>>, <<>>, <<>>,
                  <<<<"fill", "black">>>>),
         DrawCall("ellipse", <<100, 90, 120, 110>>, <<>>, <<>>,
                  <<<<"fill", "black">>>>) >>)
    @@ (<<"a", "l", "e">> :> <<
         DrawCall("rectangle", <<60, 60, 140, 140>>, <<>>, <<>>,
                  <<<<"outline", "black">>, <<"width", "4">>>>) >>)
    @@ (<<"a", "l", "a">> :> <<>>)
    @@ (<<"j", "a", "n">> :> <<
         DrawCall("ellipse", <<90, 65, 110, 85>>, <<>>, <<>>,
                  <<<<"fill", "black">>>>),
         DrawCall("rectangle", <<98, 85, 102, 115>>, <<>>, <<>>,
                  <<<<"fill", "black">>>>),
         DrawCall("line", <<102, 95, 115, 105>>, <<>>, <<>>,
                  <<<<"fill", "black">>, <<"width", "3">>>>),
         DrawCall("line", <<98, 95, 85, 105>>, <<>>, <<>>,
                  <<<<"fill", "black">>, <<"width", "3">>>>),
         DrawCall("line", <<100, 115, 95, 130>>, <<>>, <<>>,
                  <<<<"fill", "black">>, <<"width", "3">>>>),
         DrawCall("line", <<100, 115, 105, 130>>, <<>>, <<>>,
                  <<<<"fill", "black">>, <<"width", "3">>>>) >>)
    @@ (<<"m", "e", "l", "i">> :> <<
         DrawCall("ellipse", <<90, 65, 110, 85>>, <<>>, <<>>,
                  <<<<"fill", "black">>>>),
         DrawCall("polygon", <<85, 85, 115, 85, 110, 125, 90, 125>>, <<>>, <<>>,
                  <<<<"fill", "black">>>>) >>)
    @@ (<<"m", "i", "j", "e">> :> <<
         DrawCall("ellipse", <<90, 65, 110, 85>>, <<>>, <<>>,
                  <<<<"fill", "black">>>>),
         DrawCall("rectangle", <<95, 85, 105, 115>>, <<>>, <<>>,
                  <<<<"fill", "black">>>>),
         DrawCall("rectangle", <<90, 115, 95, 130>>, <<>>, <<>>,
                  <<<<"fill", "black">>>>),
         DrawCall("rectangle", <<105, 115, 110, 130>>, <<>>, <<>>,
                  <<<<"fill", "black">>>>) >>)
    @@ (<<"m", "a", "m", "a">> :> <<
         DrawCall("ellipse", <<85, 70, 115, 100>>, <<>>, <<>>,
                  <<<<"fill", "black">>>>),
         DrawCall("rectangle", <<95, 100, 105, 125>>, <<>>, <<>>,
                  <<<<"fill", "black">>>>) >>)
    @@ (<<"s", "u", "n", "o">> :> <<
         DrawCall("ellipse", <<85, 85, 115, 115>>, <<>>, <<>>,
                  <<<<"fill", "black">>>>),
         DrawCall("line", <<100, 65, 100, 80>>, <<>>, <<>>,
                  <<<<"fill", "black">>, <<"width", "3">>>>),
         DrawCall("line", <<100, 120, 100, 135>>, <<>>, <<>>,
                  <<<<"fill", "black">>, <<"width", "3">>>>),
         DrawCall("line", <<65, 100, 80, 100>>, <<>>, <<>>,
                  <<<<"fill", "black">>, <<"width", "3">>>>),
         DrawCall("line", <<120, 100, 135, 100>>, <<>>, <<>>,
                  <<<<"fill", "black">>, <<"width", "3">>>>),
         DrawCall("line", <<78, 78, 88, 88>>, <<>>, <<>>,
                  <<<<"fill", "black">>, <<"width", "3">>>>),
         DrawCall("line", <<112, 112, 122, 122>>, <<>>, <<>>,
                  <<<<"fill", "black">>, <<"width", "3">>>>),
         DrawCall("line", <<122, 78, 112, 88>>, <<>>, <<>>,
                  <<<<"fill", "black">>, <<"width", "3">>>>),
         DrawCall("line", <<88, 112, 78, 122>>, <<>>, <<>>,
                  <<<<"fill", "black">>, <<"width", "3">>>>) >>)
    @@ (<<"m", "u", "n">> :> <<
         DrawCall("ellipse", <<75, 75, 125, 125>>, <<>>, <<>>,
                  <<<<"outline", "black">>, <<"width", "3">>>>),
         DrawCall("ellipse", <<85, 85, 115, 115>>, <<>>, <<>>,
                  <<<<"fill", "white">>>>),
         DrawCall("ellipse", <<90, 85, 115, 110>>, <<>>, <<>>,
                  <<<<"fill", "black">>>>) >>)
    @@ (<<"t", "e", "l", "o">> :> <<
         DrawCall("arc", <<75, 90, 125, 140>>, <<0, 180>>, <<>>,
                  <<<<"fill", "black">>, <<"width", "4">>>>),
         DrawCall("arc", <<80, 105, 120, 155>>, <<0, 180>>, <<>>,
                  <<<<"fill", "black">>, <<"width", "4">>>>) >>)
    @@ (<<"m", "a">> :> <<
         DrawCall("rectangle", <<60, 115, 140, 135>>, <<>>, <<>>,
                  <<<<"fill", "black">>>>) >>)
    @@ (<<"k", "a", "s", "i">> :> <<
         DrawCall("line", <<100, 130, 100, 90>>, <<>>, <<>>,
                  <<<<"fill", "black">>, <<"width", "4">>>>),
         DrawCall("ellipse", <<90, 80, 110, 100>>, <<>>, <<>>,
                  <<<<"fill", "black">>>>),
         DrawCall("line", <<100, 110, 85, 105>>, <<>>, <<>>,
                  <<<<"fill", "black">>, <<"width", "3">>>>),
         DrawCall("line", <<100, 110, 115, 105>>, <<>>, <<>>,
                  <<<<"fill", "black">>, <<"width", "3">>>>) >>)
    @@ (<<"k", "i", "w", "e", "n">> :> <<
         DrawCall("polygon", <<100, 70, 120, 100, 100, 130, 80, 100>>, <<>>, <<>>,
                  <<<<"fill", "black">>>>) >>)
    @@ (<<"k", "o", "n">> :> <<
         DrawCall("arc", <<70, 80, 100, 110>>, <<45, 225>>, <<>>,
                  <<<<"fill", "black">>, <<"width", "3">>>>),
         DrawCall("arc", <<100, 90, 130, 120>>, <<45, 225>>, <<>>,
                  <<<<"fill", "black">>, <<"width", "3">>>>) >>)
    @@ (<<"s", "o", "w", "e", "l", "i">> :> <<
         DrawCall("ellipse", <<80, 85, 120, 115>>, <<>>, <<>>,
                  <<<<"fill", "black">>>>),
         DrawCall("ellipse", <<115, 90, 135, 110>>, <<>>, <<>>,
                  <<<<"fill", "black">>>>),
         DrawCall("line", <<135, 95, 145, 90>>, <<>>, <<>>,
                  <<<<"fill", "black">>, <<"width", "2">>>>),
         DrawCall("line", <<135, 105, 145, 110>>, <<>>, <<>>,
                  <<<<"fill", "black">>, <<"width", "2">>>>),
         DrawCall("line", <<80, 105, 70, 115>>, <<>>, <<>>,
                  <<<<"fill", "black">>, <<"width", "3">>>>) >>)
    @@ (<<"w", "a", "s", "o">> :> <<
         DrawCall("ellipse", <<85, 90, 115, 110>>, <<>>, <<>>,
                  <<<<"fill", "black">>>>),
         DrawCall("polygon", <<85, 100, 75, 95, 75, 105>>, <<>>, <<>>,
                  <<<<"fill", "black">>>>),
         DrawCall("line", <<100, 110, 100, 125>>, <<>>, <<>>,
                  <<<<"fill", "black">>, <<"width", "2">>>>),
         DrawCall("line", <<95, 125, 105, 125>>, <<>>, <<>>,
                  <<<<"fill", "black">>, <<"width", "2">>>>),
         DrawCall("arc", <<105, 85, 125, 105>>, <<270, 90>>, <<>>,
                  <<<<"fill", "black">>, <<"width", "2">>>>) >>)
    @@ (<<"k", "a", "l", "a">> :> <<
         DrawCall("ellipse", <<70, 90, 120, 110>>, <<>>, <<>>,
                  <<<<"fill", "black">>>>),
         DrawCall("polygon", <<120, 100, 135, 90, 135, 110>>, <<>>, <<>>,
                  <<<<"fill", "black">>>>),
         DrawCall("ellipse", <<115, 95, 120, 100>>, <<>>, <<>>,
                  <<<<"fill", "white">>>>) >>)
    @@ (<<"a", "k", "e", "s", "i">> :> <<
         DrawCall("ellipse", <<70, 95, 130, 105>>, <<>>, <<>>,
                  <<<<"fill", "black">>>>),
         DrawCall("ellipse", <<125, 97, 135, 103>>, <<>>, <<>>,
                  <<<<"fill", "black">>>>),
         DrawCall("line", <<70, 95, 65, 90>>, <<>>, <<>>,
                  <<<<"fill", "black">>, <<"width", "2">>>>),
         DrawCall("line", <<70, 105, 65, 110>>, <<>>, <<>>,
                  <<<<"fill", "black">>, <<"width", "2">>>>) >>)
    @@ (<<"p", "i", "p", "i">> :> <<
         DrawCall("ellipse", <<90, 95, 110, 105>>, <<>>, <<>>,
                  <<<<"fill", "black">>>>),
         DrawCall("line", <<85, 95, 90, 90>>, <<>>, <<>>,
                  <<<<"fill", "black">>, <<"width", "1">>>>),
         DrawCall("line", <<85, 105, 90, 110>>, <<>>, <<>>,
                  <<<<"fill", "black">>, <<"width", "1">>>>),
         DrawCall("line", <<110, 95, 115, 90>>, <<>>, <<>>,
                  <<<<"fill", "black">>, <<"width", "1">>>>),
         DrawCall("line", <<110, 105, 115, 110>>, <<>>, <<>>,
                  <<<<"fill", "black">>, <<"width", "1">>>>) >>)
    @@ (<<"l", "u", "k", "a">> :> <<
         DrawCall("ellipse", <<85, 100, 115, 130>>, <<>>, <<>>,
                  <<<<"fill", "black">>>>),
         DrawCall("rectangle", <<90, 85, 95, 105>>, <<>>, <<>>,
                  <<<<"fill", "black">>>>),
         DrawCall("rectangle", <<95, 80, 100, 105>>, <<>>, <<>>,
                  <<<<"fill", "black">>>>),
         DrawCall("rectangle", <<100, 80, 105, 105>>, <<>>, <<>>,
                  <<<<"fill", "black">>>>),
         DrawCall("rectangle", <<105, 85, 110, 105>>, <<>>, <<>>,
                  <<<<"fill", "black">>>>) >>)
    @@ (<<"n", "o", "k", "a">> :> <<
         DrawCall("ellipse", <<85, 105, 115, 125>>, <<>>, <<>>,
                  <<<<"fill", "black">>>>),
         DrawCall("rectangle", <<95, 85, 105, 110>>, <<>>, <<>>,
                  <<<<"fill", "black">>>>) >>)
    @@ (<<"u", "t", "a">> :> <<
         DrawCall("arc", <<85, 95, 115, 115>>, <<0, 180>>, <<>>,
                  <<<<"fill", "black">>, <<"width", "4">>>>) >>)
    @@ (<<"o", "k", "o">> :> <<
         DrawCall("ellipse", <<85, 90, 115, 110>>, <<>>, <<>>,
                  <<<<"outline", "black">>, <<"width", "3">>>>),
         DrawCall("ellipse", <<95, 95, 105, 105>>, <<>>, <<>>,
                  <<<<"fill", "black">>>>) >>)
    @@ (<<"l", "u", "k", "i", "n">> :> <<
         DrawCall("ellipse", <<85, 90, 115, 110>>, <<>>, <<>>,
                  <<<<"outline", "black">>, <<"width", "3">>>>),
         DrawCall("ellipse", <<95, 95, 105, 105>>, <<>>, <<>>,
                  <<<<"fill", "black">>>>) >>)
    @@ (<<"k", "u", "t", "e">> :> <<
         DrawCall("arc", <<85, 85, 115, 115>>, <<225, 45>>, <<>>,
                  <<<<"fill", "black">>, <<"width", "4">>>>),
         DrawCall("arc", <<80, 80, 120, 120>>, <<225, 45>>, <<>>,
                  <<<<"fill", "black">>, <<"width", "2">>>>) >>)
    @@ (<<"s", "i", "j", "e", "l", "o">> :> <<
         DrawCall("ellipse", <<80, 80, 120, 120>>, <<>>, <<>>,
                  <<<<"outline", "black">>, <<"width", "4">>>>) >>)
    @@ (<<"l", "a", "w", "a">> :> <<
         DrawCall("ellipse", <<85, 75, 115, 105>>, <<>>, <<>>,
                  <<<<"fill", "black">>>>) >>)
    @@ (<<"p", "a", "l", "i">> :> <<
         DrawCall("rectangle", <<85, 90, 95, 110>>, <<>>, <<>>,
                  <<<<"fill", "black">>>>),
         DrawCall("polygon", <<95, 85, 115, 90, 115, 110, 95, 105>>, <<>>, <<>>,
                  <<<<"fill", "black">>>>) >>)
    @@ (<<"u", "t", "a", "l", "a">> :> <<
         DrawCall("line", <<70, 85, 130, 85>>, <<>>, <<>>,
                  <<<<"fill", "black">>, <<"width", "4">>>>),
         DrawCall("rectangle", <<95, 85, 105, 105>>, <<>>, <<>>,
                  <<<<"fill", "black">>>>) >>)
    @@ (<<"m", "o", "k", "u">> :> <<
         DrawCall("arc", <<80, 100, 120, 140>>, <<0, 180>>, <<>>,
                  <<<<"outline", "black">>, <<"width", "4">>>>),
         DrawCall("ellipse", <<95, 115, 105, 125>>, <<>>, <<>>,
                  <<<<"fill", "black">>>>) >>)
    @@ (<<"t", "o", "k", "i">> :> <<
         DrawCall("arc", <<80, 85, 120, 115>>, <<180, 360>>, <<>>,
                  <<<<"fill", "black">>, <<"width", "3">>>>),
         DrawCall("line", <<85, 105, 75, 115>>, <<>>, <<>>,
                  <<<<"fill", "black">>, <<"width", "2">>>>),
         DrawCall("line", <<90, 110, 80, 120>>, <<>>, <<>>,
                  <<<<"fill", "black">>, <<"width", "2">>>>) >>)
    @@ (<<"k", "a", "m", "a">> :> <<
         DrawCall("line", <<70, 100, 130, 100>>, <<>>, <<>>,
                  <<<<"fill", "black">>, <<"width", "4">>>>),
         DrawCall("polygon", <<120, 90, 130, 100, 120, 110>>, <<>>, <<>>,
                  <<<<"fill", "black">>>>) >>)
    @@ (<<"t", "a", "w", "a">> :> <<
         DrawCall("line", <<70, 100, 130, 100>>, <<>>, <<>>,
                  <<<<"fill", "black">>, <<"width", "4">>>>),
         DrawCall("polygon", <<120, 90, 130, 100, 120, 110>>, <<>>, <<>>,
                  <<<<"fill", "black">>>>) >>)
    @@ (<<"j", "o">> :> <<
         DrawCall("ellipse", <<85, 90, 115, 110>>, <<>>, <<>>,
                  <<<<"outline", "black">>, <<"width", "3">>>>),
         DrawCall("line", <<100, 90, 100, 75>>, <<>>, <<>>,
                  <<<<"fill", "black">>, <<"width", "3">>>>),
         DrawCall("polygon", <<95, 75, 100, 70, 105, 75>>, <<>>, <<>>,
                  <<<<"fill", "black">>>>) >>)
    @@ (<<"t", "o", "m", "o">> :> <<
         DrawCall("rectangle", <<75, 105, 125, 135>>, <<>>, <<>>,
                  <<<<"fill", "black">>>>),
         DrawCall("polygon", <<75, 105, 100, 80, 125, 105>>, <<>>, <<>>,
                  <<<<"fill", "black">>>>),
         DrawCall("rectangle", <<95, 115, 105, 130>>, <<>>, <<>>,
                  <<<<"fill", "white">>>>) >>)
    @@ (<<"i", "l", "o">> :> <<
         DrawCall("rectangle", <<85, 85, 115, 95>>, <<>>, <<>>,
                  <<<<"fill", "black">>>>),
         DrawCall("rectangle", <<98, 95, 102, 120>>, <<>>, <<>>,
                  <<<<"fill", "black">>>>) >>)
    @@ (<<"l", "i", "p", "u">> :> <<
         DrawCall("rectangle", <<80, 70, 120, 130>>, <<>>, <<>>,
                  <<<<"outline", "black">>, <<"width", "3">>>>) >>)
    @@ (<<"l", "e", "n">> :> <<
         DrawCall("rectangle", <<80, 85, 120, 115>>, <<>>, <<>>,
                  <<<<"outline", "black">>, <<"width", "3">>>>),
         DrawCall("line", <<85, 90, 115, 90>>, <<>>, <<>>,
                  <<<<"fill", "black">>, <<"width", "2">>>>),
         DrawCall("line", <<85, 100, 115, 100>>, <<>>, <<>>,
                  <<<<"fill", "black">>, <<"width", "2">>>>),
         DrawCall("line", <<85, 110, 115, 110>>, <<>>, <<>>,
                  <<<<"fill", "black">>, <<"width", "2">>>>) >>)
    @@ (<<"p", "o", "k", "i">> :> <<
         DrawCall("rectangle", <<80, 95, 120, 125>>, <<>>, <<>>,
                  <<<<"outline", "black">>, <<"width", "3">>>>),
         DrawCall("line", <<85, 95, 115, 95>>, <<>>, <<>>,
                  <<<<"fill", "black">>, <<"width", "2">>>>) >>)
    @@ (<<"s", "u", "p", "a">> :> <<
         DrawCall("line", <<70, 110, 130, 110>>, <<>>, <<>>,
                  <<<<"fill", "black">>, <<"width", "6">>>>),
         DrawCall("line", <<80, 110, 80, 130>>, <<>>, <<>>,
                  <<<<"fill", "black">>, <<"width", "3">>>>),
         DrawCall("line", <<120, 110, 120, 130>>, <<>>, <<>>,
                  <<<<"fill", "black">>, <<"width", "3">>>>) >>)
    @@ (<<"k", "u", "l", "e">> :> <<
         DrawCall("rectangle", <<80, 85, 90, 95>>, <<>>, <<>>,
                  <<<<"fill", "red">>>>),
         DrawCall("rectangle", <<90, 85, 100, 95>>, <<>>, <<>>,
                  <<<<"fill", "green">>>>),
         DrawCall("rectangle", <<100, 85, 110, 95>>, <<>>, <<>>,
                  <<<<"fill", "blue">>>>),
         DrawCall("rectangle", <<110, 85, 120, 95>>, <<>>, <<>>,
                  <<<<"fill", "yellow">>>>) >>)
    @@ (<<"l", "o", "j", "e">> :> <<
         DrawCall("rectangle", <<80, 80, 120, 120>>, <<>>, <<>>,
                  <<<<"fill", "red">>>>) >>)
    @@ (<<"l", "a", "s", "o">> :> <<
         DrawCall("rectangle", <<80, 80, 120, 120>>, <<>>, <<>>,
                  <<<<"fill", "blue">>>>) >>)
    @@ (<<"j", "e", "l", "o">> :> <<
         DrawCall("rectangle", <<80, 80, 120, 120>>, <<>>, <<>>,
                  <<<<"fill", "yellow">>>>) >>)
    @@ (<<"p", "i", "m", "e", "j", "a">> :> <<
         DrawCall("rectangle", <<80, 80, 120, 120>>, <<>>, <<>>,
                  <<<<"fill", "black">>>>) >>)
    @@ (<<"w", "a", "l", "o">> :> <<
         DrawCall("rectangle", <<80, 80, 120, 120>>, <<>>, <<>>,
                  <<<<"outline", "black">>, <<"width", "3">>>>) >>)
    @@ (<<"o", "l", "i", "n">> :> <<
         DrawCall("arc", <<85, 85, 105, 105>>, <<180, 360>>, <<>>,
                  <<<<"fill", "black">>, <<"width", "3">>>>),
         DrawCall("arc", <<95, 85, 115, 105>>, <<180, 360>>, <<>>,
                  <<<<"fill", "black">>, <<"width", "3">>>>),
         DrawCall("polygon", <<100, 100, 85, 115, 115, 115>>, <<>>, <<>>,
                  <<<<"fill", "black">>>>) >>)
    @@ (<<"p", "i", "l", "i", "n">> :> <<
         DrawCall("ellipse", <<85, 85, 115, 115>>, <<>>, <<>>,
                  <<<<"outline", "black">>, <<"width", "3">>>>),
         DrawCall("ellipse", <<95, 95, 105, 105>>, <<>>, <<>>,
                  <<<<"fill", "black">>>>) >>)
    @@ (<<"w", "i", "l", "e">> :> <<
         DrawCall("ellipse", <<85, 85, 115, 115>>, <<>>, <<>>,
                  <<<<"outline", "black">>, <<"width", "3">>>>),
         DrawCall("polygon", <<100, 85, 95, 75, 105, 75>>, <<>>, <<>>,
                  <<<<"fill", "black">>>>) >>)
    @@ (<<"t", "e", "n", "p", "o">> :> <<
         DrawCall("ellipse", <<80, 80, 120, 120>>, <<>>, <<>>,
                  <<<<"outline", "black">>, <<"width", "3">>>>),
         DrawCall("line", <<100, 100, 100, 85>>, <<>>, <<>>,
                  <<<<"fill", "black">>, <<"width", "3">>>>),
         DrawCall("line", <<100, 100, 110, 100>>, <<>>, <<>>,
                  <<<<"fill", "black">>, <<"width", "2">>>>) >>)
    @@ (<<"s", "e", "w", "i">> :> <<
         DrawCall("polygon", <<100, 70, 90, 90, 110, 90>>, <<>>, <<>>,
                  <<<<"fill", "black">>>>),
         DrawCall("line", <<100, 90, 100, 130>>, <<>>, <<>>,
                  <<<<"fill", "black">>, <<"width", "3">>>>) >>)
    @@ (<<"a", "n", "p", "a">> :> <<
         DrawCall("polygon", <<100, 130, 90, 110, 110, 110>>, <<>>, <<>>,
                  <<<<"fill", "black">>>>),
         DrawCall("line", <<100, 70, 100, 110>>, <<>>, <<>>,
                  <<<<"fill", "black">>, <<"width", "3">>>>) >>)
    @@ (<<"p", "o", "k", "a">> :> <<
         DrawCall("line", <<70, 100, 130, 100>>, <<>>, <<>>,
                  <<<<"fill", "black">>, <<"width", "4">>>>),
         DrawCall("line", <<110, 90, 120, 100, 110, 110>>, <<>>, <<>>,
                  <<<<"fill", "black">>, <<"width", "3">>>>),
         DrawCall("line", <<90, 90, 80, 100, 90, 110>>, <<>>, <<>>,
                  <<<<"fill", "black">>, <<"width", "3">>>>) >>)
    @@ (<<"m", "o", "n", "s", "i">> :> <<
         DrawCall("line", <<70, 100, 130, 100>>, <<>>, <<>>,
                  <<<<"fill", "black">>, <<"width", "4">>>>),
         DrawCall("polygon", <<70, 90, 80, 100, 70, 110>>, <<>>, <<>>,
                  <<<<"fill", "black">>>>) >>)
    @@ (<<"s", "i", "n", "p", "i", "n">> :> <<
         DrawCall("line", <<70, 100, 130, 100>>, <<>>, <<>>,
                  <<<<"fill", "black">>, <<"width", "4">>>>),
         DrawCall("polygon", <<130, 90, 120, 100, 130, 110>>, <<>>, <<>>,
                  <<<<"fill", "black">>>>) >>)
    @@ (<<"s", "o", "n", "a">> :> <<
         DrawCall("ellipse", <<85, 85, 115, 115>>, <<>>, <<>>,
                  <<<<"outline", "black">>, <<"width", "3">>>>),
         DrawCall("text", <<93, 93>>, <<>>, <<"?">>,
                  <<<<"fill", "black">>>>) >>)
    @@ (<<"k", "e", "n">> :> <<
         DrawCall("rectangle", <<85, 85, 115, 115>>, <<>>, <<>>,
                  <<<<"outline", "black">>, <<"width", "3">>>>),
         DrawCall("line", <<90, 90, 110, 110>>, <<>>, <<>>,
                  <<<<"fill", "black">>, <<"width", "3">>>>) >>)
    @@ (<<"w", "a", "w", "a">> :> <<
         DrawCall("polygon", <<100, 70, 85, 100, 100, 130, 115, 100>>, <<>>, <<>>,
                  <<<<"fill", "black">>>>) >>)
    @@ (<<"l", "a", "p", "e">> :> <<
         DrawCall("ellipse", <<85, 95, 115, 105>>, <<>>, <<>>,
                  <<<<"fill", "black">>>>),
         DrawCall("arc", <<80, 75, 105, 95>>, <<0, 180>>, <<>>,
                  <<<<"fill", "black">>, <<"width", "2">>>>) >>)

\* generate_proper_geometric_sitelen_pona, lines 434-448: the bordered frame
\* with the word; the word is cut to 8 characters at (60, 90) when measuring
\* it raises.
ProperFallback(w, size, image, bbox) ==
    LET framed ==
            Draw(image,
                 DrawCall("rectangle",
                          <<30, 30, size[1] - 30, size[2] - 30>>, <<>>, <<>>,
                          <<<<"outline", "black">>, <<"width", "2">>>>))
        measured == TextSize(load_default, w)
        x == (size[1] - measured[1]) \div 2
        y == (size[2] - measured[2]) \div 2
    IN  IF bbox = "ok"
        THEN Draw(framed,
                  DrawCall("text", <<x, y>>, <<>>, w,
                           <<<<"font", "default">>, <<"fill", "black">>>>))
        ELSE Draw(framed,
                  DrawCall("text", <<60, 90>>, <<>>, Prefix(w, 8),
                           <<<<"fill", "black">>>>))

\* generate_proper_geometric_sitelen_pona(word, size, draw): the recipe of
\* the word; the fallback when there is none or when drawing it raised (the
\* fallback then draws over what the recipe had drawn).
generate_proper_geometric_sitelen_pona(w, size, bbox) ==
    LET img == Image_new(size)
        known == w \in DOMAIN sitelen_designs
        drawn == IF known THEN RunRecipe(sitelen_designs[w], img)
                 ELSE [img |-> img, raised |-> FALSE]
    IN  IF known /\ ~drawn.raised THEN Returned(drawn.img, "recipe")
        ELSE Returned(ProperFallback(w, size, drawn.img, bbox), "fallback")

\* generate_proper_sitelen_pona_image(word, size)
generate_proper_sitelen_pona_image(w, size, bbox) ==
    generate_proper_geometric_sitelen_pona(w, size, bbox)

\* generate_images.generate_sitelen_pona_image(word, font_path, size): the
\* recipes for "manual"; else the word drawn with the typeface at size 120,
\* and the recipes when loading the typeface or measuring the word raises.
images_generate_sitelen_pona_image(w, path, size, face, bbox) ==
    IF path = "manual" THEN generate_proper_sitelen_pona_image(w, size, bbox)
    ELSE IF face = "loads" /\ bbox = "ok"
    THEN LET font == truetype(120)
             measured == TextSize(font, w)
             x == (size[1] - measured[1]) \div 2
             y == (size[2] - measured[2]) \div 2
         IN  Returned(Draw(Image_new(size),
                           DrawCall("text", <<x, y>>, <<>>, w,
                                    <<<<"font", "typeface">>,
                                      <<"fill", "black">>>>)),
                      "font")
    ELSE generate_proper_sitelen_pona_image(w, size, bbox)

\* -------------------------------------------------- generate_anki_deck

\* generate_geometric_sitelen_pona: geometric_shapes, word to recipe.
geometric_shapes ==
       (<<"a">> :> <<
         DrawCall("ellipse", <<50, 80, 150, 120>>, <<>>, <<>>,
                  <<<<"fill", "black">>>>) >>)
    @@ (<<"m", "i">> :> <<
         DrawCall("polygon", <<100, 40, 60, 160, 140, 160>>, <<>>, <<>>,
                  <<<<"fill", "black">>>>) >>)
    @@ (<<"s", "i", "n", "a">> :> <<
         DrawCall("polygon", <<100, 160, 60, 40, 140, 40>>, <<>>, <<>>,
                  <<<<"fill", "black">>>>) >>)
    @@ (<<"o", "n", "a">> :> <<
         DrawCall("ellipse", <<70, 70, 130, 130>>, <<>>, <<>>,
                  <<<<"fill", "black">>>>) >>)
    @@ (<<"n", "i">> :> <<
         DrawCall("rectangle", <<80, 80, 120, 120>>, <<>>, <<>>,
                  <<<<"fill", "black">>>>) >>)
    @@ (<<"p", "o", "n", "a">> :> <<
         DrawCall("ellipse", <<70, 70, 130, 130>>, <<>>, <<>>,
                  <<<<"outline", "black">>, <<"width", "3">>>>),
         DrawCall("ellipse", <<90, 90, 110, 110>>, <<>>, <<>>,
                  <<<<"fill", "black">>>>) >>)
    @@ (<<"i", "k", "e">> :> <<
         DrawCall("line", <<70, 70, 130, 130>>, <<>>, <<>>,
                  <<<<"fill", "black">>, <<"width", "4">>>>),
         DrawCall("line", <<70, 130, 130, 70>>, <<>>, <<>>,
                  <<<<"fill", "black">>, <<"width", "4">>>>) >>)
    @@ (<<"j", "a", "n">> :> <<
         DrawCall("ellipse", <<85, 60, 115, 90>>, <<>>, <<>>,
                  <<<<"fill", "black">>>>),
         DrawCall("rectangle", <<95, 90, 105, 140>>, <<>>, <<>>,
                  <<<<"fill", "black">>>>) >>)
    @@ (<<"m", "e", "l", "i">> :> <<
         DrawCall("ellipse", <<85, 60, 115, 90>>, <<>>, <<>>,
                  <<<<"fill", "black">>>>),
         DrawCall("rectangle", <<95, 90, 105, 140>>, <<>>, <<>>,
                  <<<<"fill", "black">>>>),
         DrawCall("polygon", <<80, 140, 120, 140, 100, 160>>, <<>>, <<>>,
                  <<<<"fill", "black">>>>) >>)
    @@ (<<"m", "i", "j", "e">> :> <<
         DrawCall("ellipse", <<85, 60, 115, 90>>, <<>>, <<>>,
                  <<<<"fill", "black">>>>),
         DrawCall("rectangle", <<95, 90, 105, 140>>, <<>>, <<>>,
                  <<<<"fill", "black">>>>),
         DrawCall("rectangle", <<85, 130, 95, 140>>, <<>>, <<>>,
                  <<<<"fill", "black">>>>),
         DrawCall("rectangle", <<105, 130, 115, 140>>, <<>>, <<>>,
                  <<<<"fill", "black">>>>) >>)
    @@ (<<"m", "o", "k", "u">> :> <<
         DrawCall("ellipse", <<70, 100, 130, 160>>, <<>>, <<>>,
                  <<<<"fill", "black">>>>) >>)
    @@ (<<"t", "o", "m", "o">> :> <<
         DrawCall("rectangle", <<60, 100, 140, 160>>, <<>>, <<>>,
                  <<<<"fill", "black">>>>),
         DrawCall("polygon", <<60, 100, 100, 60, 140, 100>>, <<>>, <<>>,
                  <<<<"fill", "black">>>>) >>)
    @@ (<<"s", "u", "n", "o">> :> <<
         DrawCall("ellipse", <<80, 80, 120, 120>>, <<>>, <<>>,
                  <<<<"fill", "black">>>>),
         DrawCall("line", <<100, 40, 100, 60>>, <<>>, <<>>,
                  <<<<"fill", "black">>, <<"width", "3">>>>),
         DrawCall("line", <<100, 140, 100, 160>>, <<>>, <<>>,
                  <<<<"fill", "black">>, <<"width", "3">>>>),
         DrawCall("line", <<40, 100, 60, 100>>, <<>>, <<>>,
                  <<<<"fill", "black">>, <<"width", "3">>>>),
         DrawCall("line", <<140, 100, 160, 100>>, <<>>, <<>>,
                  <<<<"fill", "black">>, <<"width", "3">>>>),
         DrawCall("line", <<65, 65, 75, 75>>, <<>>, <<>>,
                  <<<<"fill", "black">>, <<"width", "3">>>>),
         DrawCall("line", <<125, 125, 135, 135>>, <<>>, <<>>,
                  <<<<"fill", "black">>, <<"width", "3">>>>),
         DrawCall("line", <<135, 65, 125, 75>>, <<>>, <<>>,
                  <<<<"fill", "black">>, <<"width", "3">>>>),
         DrawCall("line", <<75, 125, 65, 135>>, <<>>, <<>>,
                  <<<<"fill", "black">>, <<"width", "3">>>>) >>)
    @@ (<<"m", "u", "n">> :> <<
         DrawCall("ellipse", <<70, 70, 130, 130>>, <<>>, <<>>,
                  <<<<"outline", "black">>, <<"width", "3">>>>),
         DrawCall("ellipse", <<80, 80, 120, 120>>, <<>>, <<>>,
                  <<<<"fill", "white">>>>) >>)
    @@ (<<"t", "e", "l", "o">> :> <<
         DrawCall("arc", <<70, 60, 130, 120>>, <<0, 180>>, <<>>,
                  <<<<"fill", "black">>, <<"width", "4">>>>),
         DrawCall("arc", <<75, 90, 125, 150>>, <<0, 180>>, <<>>,
                  <<<<"fill", "black">>, <<"width", "4">>>>),
         DrawCall("arc", <<80, 120, 120, 180>>, <<0, 180>>, <<>>,
                  <<<<"fill", "black">>, <<"width", "4">>>>) >>)
    @@ (<<"s", "i", "k", "e">> :> <<
         DrawCall("ellipse", <<60, 60, 140, 140>>, <<>>, <<>>,
                  <<<<"outline", "black">>, <<"width", "4">>>>) >>)
    @@ (<<"l", "u", "k", "a">> :> <<
         DrawCall("rectangle", <<90, 100, 110, 140>>, <<>>, <<>>,
                  <<<<"fill", "black">>>>),
         DrawCall("rectangle", <<85, 90, 95, 120>>, <<>>, <<>>,
                  <<<<"fill", "black">>>>),
         DrawCall("rectangle", <<95, 85, 105, 115>>, <<>>, <<>>,
                  <<<<"fill", "black">>>>),
         DrawCall("rectangle", <<105, 85, 115, 115>>, <<>>, <<>>,
                  <<<<"fill", "black">>>>),
         DrawCall("rectangle", <<115, 90, 125, 120>>, <<>>, <<>>,
                  <<<<"fill", "black">>>>) >>)
    @@ (<<"k", "i", "l", "i">> :> <<
         DrawCall("ellipse", <<75, 75, 125, 125>>, <<>>, <<>>,
                  <<<<"fill", "black">>>>) >>)
    @@ (<<"k", "a", "l", "a">> :> <<
         DrawCall("ellipse", <<60, 85, 120, 115>>, <<>>, <<>>,
                  <<<<"fill", "black">>>>),
         DrawCall("polygon", <<120, 100, 140, 90, 140, 110>>, <<>>, <<>>,
                  <<<<"fill", "black">>>>) >>)
    @@ (<<"w", "a", "s", "o">> :> <<
         DrawCall("ellipse", <<85, 90, 115, 110>>, <<>>, <<>>,
                  <<<<"fill", "black">>>>),
         DrawCall("polygon", <<85, 100, 70, 95, 70, 105>>, <<>>, <<>>,
                  <<<<"fill", "black">>>>),
         DrawCall("line", <<100, 110, 100, 130>>, <<>>, <<>>,
                  <<<<"fill", "black">>, <<"width", "3">>>>),
         DrawCall("line", <<95, 130, 105, 130>>, <<>>, <<>>,
                  <<<<"fill", "black">>, <<"width", "3">>>>) >>)
    @@ (<<"l", "e", "n">> :> <<
         DrawCall("rectangle", <<70, 80, 130, 120>>, <<>>, <<>>,
                  <<<<"fill", "black">>>>) >>)
    @@ (<<"l", "a", "p", "e">> :> <<
         DrawCall("ellipse", <<85, 90, 115, 110>>, <<>>, <<>>,
                  <<<<"fill", "black">>>>),
         DrawCall("arc", <<80, 70, 100, 90>>, <<0, 180>>, <<>>,
                  <<<<"fill", "black">>, <<"width", "3">>>>) >>)
    @@ (<<"u", "t", "a", "l", "a">> :> <<
         DrawCall("line", <<60, 80, 140, 80>>, <<>>, <<>>,
                  <<<<"fill", "black">>, <<"width", "4">>>>),
         DrawCall("rectangle", <<95, 80, 105, 100>>, <<>>, <<>>,
                  <<<<"fill", "black">>>>) >>)
    @@ (<<"i", "l", "o">> :> <<
         DrawCall("rectangle", <<80, 70, 120, 90>>, <<>>, <<>>,
                  <<<<"fill", "black">>>>),
         DrawCall("rectangle", <<95, 90, 105, 130>>, <<>>, <<>>,
                  <<<<"fill", "black">>>>) >>)
    @@ (<<"l", "i", "p", "u">> :> <<
         DrawCall("rectangle", <<70, 60, 130, 140>>, <<>>, <<>>,
                  <<<<"outline", "black">>, <<"width", "3">>>>) >>)
    @@ (<<"o", "l", "i", "n">> :> <<
         DrawCall("arc", <<80, 80, 120, 120>>, <<200, 340>>, <<>>,
                  <<<<"fill", "black">>, <<"width", "3">>>>),
         DrawCall("polygon", <<100, 115, 85, 95, 115, 95>>, <<>>, <<>>,
                  <<<<"fill", "black">>>>) >>)
    @@ (<<"w", "i", "l", "e">> :> <<
         DrawCall("ellipse", <<85, 85, 115, 115>>, <<>>, <<>>,
                  <<<<"outline", "black">>, <<"width", "3">>>>),
         DrawCall("polygon", <<100, 85, 95, 75, 105, 75>>, <<>>, <<>>,
                  <<<<"fill", "black">>>>) >>)
    @@ (<<"k", "e", "n">> :> <<
         DrawCall("rectangle", <<80, 80, 120, 120>>, <<>>, <<>>,
                  <<<<"outline", "black">>, <<"width", "3">>>>),
         DrawCall("line", <<90, 90, 110, 110>>, <<>>, <<>>,
                  <<<<"fill", "black">>, <<"width", "3">>>>) >>)
    @@ (<<"s", "e", "l", "i">> :> <<
         DrawCall("polygon", <<100, 60, 90, 90, 95, 100, 105, 100, 110, 90>>, <<>>, <<>>,
                  <<<<"fill", "black">>>>),
         DrawCall("ellipse", <<85, 100, 115, 130>>, <<>>, <<>>,
                  <<<<"fill", "black">>>>) >>)
    @@ (<<"l", "e", "t", "e">> :> <<
         DrawCall("polygon", <<100, 60, 95, 80, 105, 80>>, <<>>, <<>>,
                  <<<<"fill", "black">>>>),
         DrawCall("polygon", <<90, 90, 85, 110, 95, 110>>, <<>>, <<>>,
                  <<<<"fill", "black">>>>),
         DrawCall("polygon", <<110, 90, 105, 110, 115, 110>>, <<>>, <<>>,
                  <<<<"fill", "black">>>>) >>)
    @@ (<<"m", "a">> :> <<
         DrawCall("rectangle", <<60, 120, 140, 140>>, <<>>, <<>>,
                  <<<<"fill", "black">>>>) >>)
    @@ (<<"s", "e", "w", "i">> :> <<
         DrawCall("polygon", <<100, 60, 90, 80, 110, 80>>, <<>>, <<>>,
                  <<<<"fill", "black">>>>),
         DrawCall("line", <<100, 80, 100, 120>>, <<>>, <<>>,
                  <<<<"fill", "black">>, <<"width", "3">>>>) >>)
    @@ (<<"a", "n", "p", "a">> :> <<
         DrawCall("polygon", <<100, 140, 90, 120, 110, 120>>, <<>>, <<>>,
                  <<<<"fill", "black">>>>),
         DrawCall("line", <<100, 80, 100, 120>>, <<>>, <<>>,
                  <<<<"fill", "black">>, <<"width", "3">>>>) >>)

\* generate_geometric_sitelen_pona(word, size): the recipe of the word (what
\* it raises leaves the function); with no recipe the bordered frame with the
\* word, and a circle with the first letter when measuring the word raises.
generate_geometric_sitelen_pona(w, size, bbox) ==
    LET img == Image_new(size)
    IN  IF w \in DOMAIN geometric_shapes
        THEN LET drawn == RunRecipe(geometric_shapes[w], img)
             IN  IF drawn.raised THEN Raised("recipe")
                 ELSE Returned(drawn.img, "recipe")
        ELSE IF bbox = "ok"
        THEN LET measured == TextSize(load_default, w)
                 framed ==
                     Draw(img,
                          DrawCall("rectangle",
                                   <<30, 30, size[1] - 30, size[2] - 30>>,
                                   <<>>, <<>>,
                                   <<<<"outline", "black">>,
                                     <<"width", "2">>>>))
             IN  Returned(
                     Draw(framed,
                          DrawCallHalves("text",
                                         <<size[1] - measured[1],
                                           size[2] - measured[2]>>,
                                         <<>>, w,
                                         <<<<"font", "default">>,
                                           <<"fill", "black">>>>)),
                     "fallback")
        ELSE LET circled ==
                     Draw(img,
                          DrawCall("ellipse", <<50, 50, 150, 150>>, <<>>, <<>>,
                                   <<<<"outline", "black">>,
                                     <<"width", "3">>>>))
             IN  Returned(
                     Draw(circled,
                          DrawCall("text", <<90, 90>>, <<>>,
                                   <<Upper(Head(w))>>,
                                   <<<<"fill", "black">>>>)),
                     "ultimate")

\* ------------------------------------------- the renderers on their own

\* The calls of a renderer that are followed.
MaxRenderings == 2

\* The variables of the release scripts.
reconcilerVars ==
    <<inputVars, os_environ, remote, localVars, exitVars, callVars, runVars>>

\* None of the release scripts runs.
NoReconciler ==
    /\ variant = "none"
    /\ environ = NoEnv
    /\ files = NoFiles
    /\ os_environ = NoEnv
    /\ remote = <<>>
    /\ remoteAtStart = <<>>
    /\ FreshLocals
    /\ run = "first"
    /\ relation = "none"
    /\ firstRun = NoRun
    /\ invocations = <<>>

\* The words the renderers are called with: the keys of toki_pona_words.json
\* are words, with a recipe in one table, in both or in none (kijetesantakalu,
\* pu).
RenderWords ==
    DOMAIN sitelen_designs \cup DOMAIN geometric_shapes
        \cup { <<"k", "i", "j", "e", "t", "e", "s", "a", "n", "t", "a", "k",
                 "a", "l", "u">>,
               <<"p", "u">> }

\* A word, the font_path generate_all_images passes (the downloaded file or
\* "manual") and the drawing library as it is installed.
InitRender ==
    /\ NoReconciler
    /\ NoDeck
    /\ unicode_char = <<>>
    /\ pc = "render"
    /\ word \in RenderWords
    /\ font_arg \in {"manual", "nasin-nanpa.otf"}
    /\ textbbox \in {"ok", "raises"}
    /\ typeface \in {"loads", "fails"}
    /\ renderings = <<>>

\* A call of a renderer, with what it gave, is added to the calls made.
Rendered(fn, out) ==
    /\ pc = "render"
    /\ Len(renderings) < MaxRenderings
    /\ renderings' = Append(renderings, [fn |-> fn, word |-> word, out |-> out])
    /\ UNCHANGED <<pc, word, font_arg, textbbox, typeface, deckVars,
                   reconcilerVars, unicode_char>>

\* generate_geometric_sitelen_pona(word)
CallGeometric ==
    Rendered("generate_geometric_sitelen_pona",
             generate_geometric_sitelen_pona(word, DefaultSize, textbbox))

\* generate_proper_geometric_sitelen_pona(word, size, draw)
CallProperGeometric ==
    Rendered("generate_proper_geometric_sitelen_pona",
             generate_proper_geometric_sitelen_pona(word, DefaultSize,
                                                    textbbox))

\* generate_images.generate_sitelen_pona_image(word, font_path, size)
CallGenerateImage ==
    Rendered("generate_sitelen_pona_image",
             images_generate_sitelen_pona_image(word, font_arg, DefaultSize,
                                                typeface, textbbox))

NextRender ==
    \/ CallGeometric
    \/ CallProperGeometric
    \/ CallGenerateImage

SpecRender == InitRender /\ [][NextRender]_vars

\* The recipe table of a vector-recipe renderer.
RecipeTable(fn) ==
    IF fn = "generate_geometric_sitelen_pona" THEN geometric_shapes
    ELSE sitelen_designs

\* The image holds the textual fallback: the bordered frame, and in it the
\* word (or its first 8 characters).
FramedWord(image, w) ==
    \E i, j \in 1..Len(image.ops) :
        /\ i < j
        /\ image.ops[i].method = "rectangle"
        /\ image.ops[i].xy =
               <<30, 30, image.size[1] - 30, image.size[2] - 30>>
        /\ image.ops[j].method = "text"
        /\ image.ops[j].text \in {w, Prefix(w, 8)}

\* The calls of the two vector-recipe renderers.
RecipeRenderings ==
    { k \in 1..Len(renderings) :
        renderings[k].fn \in {"generate_geometric_sitelen_pona",
                              "generate_proper_geometric_sitelen_pona"} }

\* C12: in the vector-recipe renderers a word with an entry in the recipe
\* table is never rendered by the textual fallback (the bordered frame with
\* the word; generate_geometric_sitelen_pona has a second one, the circle with
\* the first letter), and a word with no entry always is.
CE_C12 ==
    \A k \in RecipeRenderings :
        LET r == renderings[k]
        IN  (r.word \in DOMAIN RecipeTable(r.fn))
                <=> ~(\/ r.out.by \in {"fallback", "ultimate"}
                      \/ FramedWord(r.out.img, r.word))

str_lower(s) ==
    LET lower == <<"a", "b", "c", "d", "e", "f", "g", "h", "i", "j", "k", "l",
                   "m", "n", "o", "p", "q", "r", "s", "t", "u", "v", "w", "x",
                   "y", "z">>
        Low(c) == IF \E i \in 1..26 : Upper(lower[i]) = c /\ lower[i] # c
                  THEN lower[CHOOSE i \in 1..26 : Upper(lower[i]) = c]
                  ELSE c
    IN  [i \in 1..Len(s) |-> Low(s[i])]

\* s.endswith(suffix)
EndsWith(s, suffix) ==
    /\ Len(suffix) <= Len(s)
    /\ SubSeq(s, Len(s) - Len(suffix) + 1, Len(s)) = suffix

\* sub in s
Contains(s, sub) ==
    \E i \in 1..(Len(s) - Len(sub) + 1) :
        SubSeq(s, i, i + Len(sub) - 1) = sub

\* os.path.basename(path): what follows the last "/".
basename(path) ==
    LET slashes == {i \in 1..Len(path) : path[i] = "/"}
        last == IF slashes = {} THEN 0
                ELSE CHOOSE i \in slashes : \A j \in slashes : j <= i
    IN  SubSeq(path, last + 1, Len(path))

\* ------------------------------------------------------------ the font

\* download_font: font_dir / "linjapona.otf", and the name a .ttf download
\* is stored under.
linjapona_otf ==
    <<"f", "o", "n", "t", "s", "/", "l", "i", "n", "j", "a", "p", "o", "n",
      "a", ".", "o", "t", "f">>
linjapona_ttf ==
    <<"f", "o", "n", "t", "s", "/", "l", "i", "n", "j", "a", "p", "o", "n",
      "a", ".", "t", "t", "f">>

\* download_font: font_urls
font_urls ==
    <<
       <<"h", "t", "t", "p", "s", ":", "/", "/", "g", "i", "t", "h", "u",
         "b", ".", "c", "o", "m", "/", "l", "i", "p", "u", "-", "l", "i",
         "n", "k", "u", "/", "i", "j", "o", "/", "r", "a", "w", "/", "m",
         "a", "i", "n", "/", "o", "_", "l", "u", "k", "i", "n", "/", "l",
         "i", "n", "k", "u", "_", "i", "l", "o", "/", "l", "i", "n", "j",
         "a", "-", "p", "o", "n", "a", ".", "t", "t", "f">>,
       <<"h", "t", "t", "p", "s", ":", "/", "/", "g", "i", "t", "h", "u",
         "b", ".", "c", "o", "m", "/", "j", "a", "n", "S", "a", "m", "e",
         "/", "l", "i", "n", "j", "a", "-", "p", "o", "n", "a", "/", "r",
         "a", "w", "/", "m", "a", "i", "n", "/", "l", "i", "n", "j", "a",
         "-", "p", "o", "n", "a", "-", "4", ".", "9", ".", "o", "t", "f">>,
       <<"h", "t", "t", "p", "s", ":", "/", "/", "g", "i", "t", "h", "u",
         "b", ".", "c", "o", "m", "/", "l", "i", "p", "u", "-", "l", "i",
         "n", "k", "u", "/", "i", "j", "o", "/", "r", "a", "w", "/", "m",
         "a", "i", "n", "/", "f", "o", "n", "t", "s", "/", "l", "i", "n",
         "j", "a", "-", "p", "o", "n", "a", ".", "o", "t", "f">>,
       <<"h", "t", "t", "p", "s", ":", "/", "/", "r", "a", "w", ".", "g",
         "i", "t", "h", "u", "b", "u", "s", "e", "r", "c", "o", "n", "t",
         "e", "n", "t", ".", "c", "o", "m", "/", "l", "i", "p", "u", "-",
         "l", "i", "n", "k", "u", "/", "i", "j", "o", "/", "m", "a", "i",
         "n", "/", "f", "o", "n", "t", "s", "/", "l", "i", "n", "j", "a",
         "-", "p", "o", "n", "a", ".", "o", "t", "f">>,
       <<"h", "t", "t", "p", "s", ":", "/", "/", "g", "i", "t", "h", "u",
         "b", ".", "c", "o", "m", "/", "k", "r", "e", "a", "t", "i", "v",
         "e", "k", "o", "r", "p", "/", "l", "i", "n", "j", "a", "-", "p",
         "o", "n", "a", "/", "r", "a", "w", "/", "m", "a", "s", "t", "e",
         "r", "/", "l", "i", "n", "j", "a", "-", "p", "o", "n", "a", "-",
         "4", ".", "9", ".", "o", "t", "f">>,
       <<"h", "t", "t", "p", "s", ":", "/", "/", "w", "y", "u", "b", ".",
         "g", "i", "t", "h", "u", "b", ".", "i", "o", "/", "t", "o", "k",
         "i", "p", "o", "n", "a", "/", "l", "i", "n", "j", "a", "-", "p",
         "o", "n", "a", "-", "4", ".", "9", ".", "o", "t", "f">>,
       <<"h", "t", "t", "p", "s", ":", "/", "/", "w", "w", "w", ".", "k",
         "r", "e", "a", "t", "i", "v", "e", "k", "o", "r", "p", ".", "c",
         "o", "m", "/", "s", "o", "f", "t", "w", "a", "r", "e", "/", "f",
         "o", "n", "t", "s", "/", "l", "i", "n", "j", "a", "p", "o", "n",
         "a", "/", "l", "i", "n", "j", "a", "-", "p", "o", "n", "a", "-",
         "4", ".", "9", ".", "o", "t", "f">> >>

\* download_font: local_font_paths (Path.home() is written ~)
local_font_paths ==
    <<
       <<"~", "/", "L", "i", "b", "r", "a", "r", "y", "/", "F", "o", "n",
         "t", "s", "/", "l", "i", "n", "j", "a", "p", "o", "n", "a", ".",
         "o", "t", "f">>,
       <<"~", "/", "L", "i", "b", "r", "a", "r", "y", "/", "F", "o", "n",
         "t", "s", "/", "l", "i", "n", "j", "a", "-", "p", "o", "n", "a",
         ".", "o", "t", "f">>,
       <<"~", "/", ".", "f", "o", "n", "t", "s", "/", "l", "i", "n", "j",
         "a", "p", "o", "n", "a", ".", "o", "t", "f">>,
       <<"~", "/", ".", "f", "o", "n", "t", "s", "/", "l", "i", "n", "j",
         "a", "-", "p", "o", "n", "a", ".", "o", "t", "f">>,
       <<"/", "u", "s", "r", "/", "l", "o", "c", "a", "l", "/", "s", "h",
         "a", "r", "e", "/", "f", "o", "n", "t", "s", "/", "l", "i", "n",
         "j", "a", "p", "o", "n", "a", ".", "o", "t", "f">>,
       <<"/", "u", "s", "r", "/", "l", "o", "c", "a", "l", "/", "s", "h",
         "a", "r", "e", "/", "f", "o", "n", "t", "s", "/", "l", "i", "n",
         "j", "a", "-", "p", "o", "n", "a", ".", "o", "t", "f">> >>

\* download_font: fallback_fonts
fallback_fonts ==
    <<
       <<"/", "u", "s", "r", "/", "s", "h", "a", "r", "e", "/", "f", "o",
         "n", "t", "s", "/", "t", "r", "u", "e", "t", "y", "p", "e", "/",
         "d", "e", "j", "a", "v", "u", "/", "D", "e", "j", "a", "V", "u",
         "S", "a", "n", "s", ".", "t", "t", "f">>,
       <<"/", "u", "s", "r", "/", "s", "h", "a", "r", "e", "/", "f", "o",
         "n", "t", "s", "/", "l", "i", "b", "e", "r", "a", "t", "i", "o",
         "n", "/", "L", "i", "b", "e", "r", "a", "t", "i", "o", "n", "S",
         "a", "n", "s", "-", "R", "e", "g", "u", "l", "a", "r", ".", "t",
         "t", "f">>,
       <<"/", "u", "s", "r", "/", "s", "h", "a", "r", "e", "/", "f", "o",
         "n", "t", "s", "/", "d", "e", "j", "a", "v", "u", "/", "D", "e",
         "j", "a", "V", "u", "S", "a", "n", "s", ".", "t", "t", "f">> >>

\* ------------------------------------------------------ create_anki_deck

\* The words of toki_pona_words.json that are followed.
MaxWords == 2

\* The calls of download_font that are followed (one call a run of the
\* script).
MaxFontCalls == 2

\* TOKI_PONA_MODEL: the fields of a note and the card templates.
TOKI_PONA_MODEL ==
    [fields |-> <<"Word", "Definition", "Type", "SitelenPona",
                  "SitelenPonaImage">>,
     templates |-> <<"Sitelen Pona to Word + Definition",
                     "Word to Sitelen Pona + Definition">>]

\* A faulty variant: a file that is no JSON is read as an empty mapping.
json_load_lenient(file) ==
    [raised |-> file.state = "missing", data |-> file.entries]

\* json.load(f) of toki_pona_words.json: the mapping, in the order of the
\* file; open raises when the file is missing and json.load when it is no
\* JSON.
json_load(file) ==
    [raised |-> file.state # "ok", data |-> file.entries]

\* generate_sitelen_pona_image, lines 342-349: the font is taken for a
\* sitelen pona typeface by its name.
sitelen_pona_font_available(path, exists) ==
    /\ path # <<>>
    /\ exists
    /\ \E name \in {<<"l", "i", "n", "j", "a">>, <<"p", "o", "n", "a">>,
                     <<"s", "i", "t", "e", "l", "e", "n">>} :
           Contains(str_lower(path), name)
    /\ \/ EndsWith(str_lower(path), <<".", "t", "t", "f">>)
       \/ EndsWith(str_lower(path), <<".", "o", "t", "f">>)

\* generate_anki_deck.generate_sitelen_pona_image up to img.save: the word
\* drawn with the typeface at size int(min(size) * 0.7), the recipes when
\* there is no sitelen pona typeface or when loading it or measuring the word
\* raises.
deck_generate_sitelen_pona_image(w, path, exists, size, face, bbox) ==
    IF sitelen_pona_font_available(path, exists) /\ face = "loads"
          /\ bbox = "ok"
    THEN LET smaller == IF size[1] < size[2] THEN size[1] ELSE size[2]
             measured == TextSize(truetype((smaller * 7) \div 10), w)
         IN  Returned(
                 Draw(Image_new(size),
                      DrawCallHalves("text",
                                     <<size[1] - measured[1],
                                       size[2] - measured[2]>>,
                                     <<>>, w,
                                     <<<<"font", "typeface">>,
                                       <<"fill", "black">>>>)),
                 "font")
    ELSE generate_geometric_sitelen_pona(w, size, bbox)

\* os.path.join(output_dir, f"{word}.png") in the directory of
\* tempfile.mkdtemp(prefix="sitelen_pona_").
output_file(w) ==
    <<"/", "t", "m", "p", "/", "s", "i", "t", "e", "l", "e", "n", "_", "p",
      "o", "n", "a", "_", "0", "/">> \o w \o <<".", "p", "n", "g">>

\* A faulty variant: the size of the image file is not looked at.
image_filename_unsized(state, path) ==
    IF state \in {"valid", "empty"} THEN basename(path) ELSE <<>>

\* create_anki_deck, lines 431-439: the image field of a note, from the state
\* of the image file ("none" when word_to_image has no entry).
image_filename_of(state, path) ==
    IF state = "valid" THEN basename(path) ELSE <<>>

\* A faulty variant: a note without an image is left out of the deck.
add_note_with_image(deck_notes, note) ==
    IF note.SitelenPonaImage = <<>> THEN deck_notes
    ELSE Append(deck_notes, note)

\* deck.add_note(note)
add_note(deck_notes, note) == Append(deck_notes, note)

\* The state of the file a path names.
FileState(files_now, path) ==
    IF path \in DOMAIN files_now THEN files_now[path].state ELSE "none"

\* toki_pona_words.json as a generation script finds it: missing, no JSON,
\* or a mapping of up to MaxWords entries with different words.
WordFiles ==
    LET entries ==
            << [word |-> <<"m", "o", "k", "u">>, definition |-> "food",
                type |-> "noun"],
               [word |-> <<"p", "u">>, definition |-> "the book",
                type |-> "noun"],
               [word |-> <<"a">>, definition |-> "ah",
                type |-> "particle"],
               [word |-> <<"m", "i">>, definition |-> "I, me, we",
                type |-> "pronoun"] >>
        mappings == { SubSeq(entries, 1, n) : n \in 0..MaxWords }
    IN  { [state |-> "missing", entries |-> <<>>],
          [state |-> "unparsable", entries |-> <<>>] }
        \cup { [state |-> "ok", entries |-> m] : m \in mappings }

\* The script is started: a word file (missing, no JSON, or up to MaxWords
\* entries with different words), the font files that are there (the stored
\* font, an installed sitelen pona font, a system font), an output file of
\* an earlier run or none, and the drawing library as it is installed.
InitDeck ==
    /\ NoReconciler
    /\ unicode_char = <<>>
    /\ pc = "deck_start"
    /\ word = <<>>
    /\ font_arg = "none"
    /\ renderings = <<>>
    /\ textbbox \in {"ok", "raises"}
    /\ typeface \in {"loads", "fails"}
    /\ words_file \in WordFiles
    /\ words_data = <<>>
    /\ \E stored \in {"missing", "empty", "valid"},
          installed, system \in {"missing", "valid"} :
           fs = [p \in {linjapona_otf, linjapona_ttf}
                       \cup {local_font_paths[i] : i \in 1..6}
                       \cup {fallback_fonts[i] : i \in 1..3} |->
                   IF p = linjapona_otf THEN stored
                   ELSE IF p = local_font_paths[3] THEN installed
                   ELSE IF p = fallback_fonts[1] THEN system
                   ELSE "missing"]
    /\ requests = <<>>
    /\ url_index = 1
    /\ font_path = <<>>
    /\ font_calls = <<>>
    /\ word_index = 1
    /\ word_to_image = <<>>
    /\ image_files = <<>>
    /\ notes = <<>>
    /\ package \in { [kind |-> "absent", notes |-> <<>>, media_files |-> <<>>],
                     [kind |-> "old", notes |-> <<>>, media_files |-> <<>>] }
    /\ reported = 0
    /\ font_response = "none"

\* create_anki_deck, lines 409-417: the word file is loaded; what open or
\* json.load raises is not caught and ends the script.
LoadWords ==
    /\ pc = "deck_start"
    /\ IF json_load(words_file).raised
       THEN pc' = "crashed" /\ UNCHANGED words_data
       ELSE pc' = "font_check" /\ words_data' = json_load(words_file).data
    /\ UNCHANGED <<words_file, fs, requests, url_index, font_path, font_calls,
                   word_index, word_to_image, image_files, notes, package,
                   reported, word, font_arg, textbbox, typeface, renderings,
                   reconcilerVars,
                   unicode_char, font_response>>

\* download_font returns path (<<>> for None) after the requests made.
ReturnFont(path, made, how) ==
    /\ font_path' = path
    /\ font_calls' =
           Append(font_calls,
                  [returned |-> path, requests |-> made, how |-> how])
    /\ pc' = "font_returned"

\* download_font, lines 101-108: the stored font is used when it is there
\* and not empty.
DownloadFontStart ==
    /\ pc = "font_check"
    /\ requests' = <<>>
    /\ url_index' = 1
    /\ font_response' = "none"
    /\ IF fs[linjapona_otf] = "valid"
       THEN ReturnFont(linjapona_otf, <<>>, "existing")
       ELSE pc' = "font_urls" /\ UNCHANGED <<font_path, font_calls>>
    /\ UNCHANGED <<words_file, words_data, fs, word_index, word_to_image,
                   image_files, notes, package, reported, word, font_arg,
                   textbbox, typeface, renderings, reconcilerVars,
                   unicode_char>>

\* A faulty variant: the length of the content is not looked at.
font_response_accepted_unsized(answer) == answer \in {"ok", "small"}

\* The loop over font_urls, in both downloaders: response.raise_for_status()
\* raises on a failed request and "if len(response.content) < 1000:
\* continue" skips a short content; what is left is written and returned.
font_response_accepted(answer) == answer = "ok"

\* download_font, lines 121-145: one request of the loop over font_urls; a
\* response of 1000 bytes or more is stored, under linjapona.ttf when the URL
\* ends with .ttf, and returned.
TryFontUrl ==
    /\ pc = "font_urls"
    /\ url_index <= Len(font_urls)
    /\ requests' = Append(requests, url_index)
    /\ \E answer \in {"ok", "small", "error"} :
        /\ font_response' = answer
        /\ IF font_response_accepted(answer)
              THEN LET url == font_urls[url_index]
                    stored == IF EndsWith(url, <<".", "t", "t", "f">>)
                              THEN linjapona_ttf
                              ELSE linjapona_otf
                IN  /\ fs' = [fs EXCEPT ![stored] = "valid"]
                    /\ ReturnFont(stored, requests', "download")
                    /\ UNCHANGED url_index
           ELSE /\ url_index' = url_index + 1
                /\ pc' = IF url_index = Len(font_urls) THEN "font_local"
                         ELSE "font_urls"
                /\ UNCHANGED <<fs, font_path, font_calls>>
    /\ UNCHANGED <<words_file, words_data, word_index, word_to_image,
                   image_files, notes, package, reported, word, font_arg,
                   textbbox, typeface, renderings, reconcilerVars,
                   unicode_char>>

\* download_font, lines 147-165: the first installed sitelen pona font is
\* copied to fonts/linjapona.otf.  The response of the last request is not
\* read after the loop.
FindLocalFont ==
    /\ pc = "font_local"
    /\ font_response' = "none"
    /\ IF \E i \in 1..Len(local_font_paths) : fs[local_font_paths[i]] = "valid"
       THEN /\ fs' = [fs EXCEPT ![linjapona_otf] = "valid"]
            /\ ReturnFont(linjapona_otf, requests, "local")
       ELSE pc' = "font_fallback" /\ UNCHANGED <<fs, font_path, font_calls>>
    /\ UNCHANGED <<words_file, words_data, requests, url_index, word_index,
                   word_to_image, image_files, notes, package, reported, word,
                   font_arg, textbbox, typeface, renderings, reconcilerVars,
                   unicode_char>>

\* download_font, lines 167-184: the first system font that is there, or
\* None.
UseFallbackFont ==
    /\ pc = "font_fallback"
    /\ LET there == {i \in 1..Len(fallback_fonts) :
                        fs[fallback_fonts[i]] = "valid"}
       IN  IF there # {}
           THEN ReturnFont(fallback_fonts[CHOOSE i \in there :
                                              \A j \in there : i <= j],
                           requests, "fallback")
           ELSE ReturnFont(<<>>, requests, "none")
    /\ UNCHANGED <<words_file, words_data, fs, requests, url_index,
                   word_index, word_to_image, image_files, notes, package,
                   reported, word, font_arg, textbbox, typeface, renderings,
                   reconcilerVars,
                   unicode_char, font_response>>

\* create_anki_deck, lines 420-423, and generate_sitelen_pona_images, lines
\* 381-390: images are generated when download_font gave a font that is
\* there, and skipped otherwise.
GenerateImagesGate ==
    /\ pc = "font_returned"
    /\ word_to_image' = <<>>
    /\ word_index' = 1
    /\ pc' = IF font_path # <<>> /\ fs[font_path] # "missing"
                  /\ words_data # <<>>
             THEN "images"
             ELSE IF words_data # <<>> THEN "notes" ELSE "write"
    /\ UNCHANGED <<words_file, words_data, fs, requests, url_index, font_path,
                   font_calls, image_files, notes, package, reported, word,
                   font_arg, textbbox, typeface, renderings, reconcilerVars,
                   unicode_char, font_response>>

\* A faulty variant: the loop over the words is left when the image of a
\* word raises.
ImagesLoopAbort(raised, index, n) == IF raised THEN n + 1 ELSE index + 1

\* "for word in words_data.keys()" with the try inside the loop: the loop
\* goes on to the next word whether or not the image of this one raised.
ImagesLoopNext(raised, index, n) == index + 1

\* generate_sitelen_pona_images, lines 391-402: one word of the loop.  The
\* image is drawn and saved; what drawing or img.save raises is caught and
\* leaves the word without an entry.
GenerateImage ==
    /\ pc = "images"
    /\ word_index <= Len(words_data)
    /\ LET w == words_data[word_index].word
           drawn == deck_generate_sitelen_pona_image(
                        w, font_path, fs[font_path] # "missing", DefaultSize,
                        typeface, textbbox)
           path == output_file(w)
           n == Len(words_data)
       IN  \E out \in {drawn}, saved \in {"valid", "empty", "raises"} :
            LET raised == out.raised \/ saved = "raises"
                next == ImagesLoopNext(raised, word_index, n)
            IN  /\ IF raised
                   THEN /\ image_files' =
                               (path :> [state |-> "missing", by |-> out.by])
                                   @@ image_files
                        /\ UNCHANGED word_to_image
                   ELSE /\ image_files' =
                               (path :> [state |-> saved, by |-> out.by])
                                   @@ image_files
                        /\ word_to_image' = (w :> path) @@ word_to_image
                /\ renderings' =
                       Append(renderings,
                              [fn |-> "generate_sitelen_pona_image",
                               word |-> w,
                               returned |-> IF raised THEN <<>> ELSE path])
                /\ word_index' = IF next > n THEN 1 ELSE next
                /\ pc' = IF next > n THEN "notes" ELSE "images"
    /\ UNCHANGED <<words_file, words_data, fs, requests, url_index, font_path,
                   font_calls, notes, package, reported, word, font_arg,
                   textbbox, typeface, reconcilerVars, unicode_char,
                   font_response>>

\* An image file of the temporary directory is removed before the notes are
\* made.
ImageLost ==
    /\ pc = "notes"
    /\ word_index = 1
    /\ \E path \in DOMAIN image_files :
        /\ image_files[path].state = "valid"
        /\ image_files' = [image_files EXCEPT ![path].state = "missing"]
    /\ UNCHANGED <<pc, words_file, words_data, fs, requests, url_index,
                   font_path, font_calls, word_index, word_to_image, notes,
                   package, reported, word, font_arg, textbbox, typeface,
                   renderings, reconcilerVars,
                   unicode_char, font_response>>

\* create_anki_deck, lines 426-446: the note of one word.
CreateNote ==
    /\ pc = "notes"
    /\ word_index <= Len(words_data)
    /\ LET entry == words_data[word_index]
           path == IF entry.word \in DOMAIN word_to_image
                   THEN word_to_image[entry.word] ELSE <<>>
           image_filename ==
               image_filename_of(FileState(image_files, path), path)
       IN  notes' =
               add_note(notes,
                        [Word |-> entry.word, Definition |-> entry.definition,
                         Type |-> entry.type, SitelenPona |-> entry.word,
                         SitelenPonaImage |-> image_filename])
    /\ word_index' = word_index + 1
    /\ pc' = IF word_index = Len(words_data) THEN "write" ELSE "notes"
    /\ UNCHANGED <<words_file, words_data, fs, requests, url_index, font_path,
                   font_calls, word_to_image, image_files, package, reported,
                   word, font_arg, textbbox, typeface, renderings,
                   reconcilerVars,
                   unicode_char, font_response>>

\* create_anki_deck, lines 448-479: the media files (the font when its name
\* ends with .ttf or .otf, the images that are there and not empty), the
\* package written to OUTPUT_FILE, and "Number of cards".
WritePackage ==
    /\ pc = "write"
    /\ LET font_media ==
               IF /\ font_path # <<>>
                  /\ fs[font_path] # "missing"
                  /\ \/ EndsWith(basename(font_path), <<".", "t", "t", "f">>)
                     \/ EndsWith(basename(font_path), <<".", "o", "t", "f">>)
               THEN <<font_path>> ELSE <<>>
           Valid(entry) ==
               /\ entry.word \in DOMAIN word_to_image
               /\ FileState(image_files, word_to_image[entry.word]) = "valid"
           valid_image_files ==
               [i \in 1..Len(SelectSeq(words_data, Valid)) |->
                   word_to_image[SelectSeq(words_data, Valid)[i].word]]
       IN  package' = [kind |-> "written", notes |-> notes,
                       media_files |-> font_media \o valid_image_files]
    /\ reported' = Len(words_data) * 2
    /\ pc' = "done"
    /\ UNCHANGED <<words_file, words_data, fs, requests, url_index, font_path,
                   font_calls, word_index, word_to_image, image_files, notes,
                   word, font_arg, textbbox, typeface, renderings,
                   reconcilerVars,
                   unicode_char, font_response>>

\* python generate_anki_deck.py, once more: the files are those the run
\* before left.
RunDeckAgain ==
    /\ pc = "done"
    /\ Len(font_calls) < MaxFontCalls
    /\ pc' = "deck_start"
    /\ words_data' = <<>>
    /\ requests' = <<>>
    /\ url_index' = 1
    /\ font_path' = <<>>
    /\ word_index' = 1
    /\ word_to_image' = <<>>
    /\ image_files' = <<>>
    /\ notes' = <<>>
    /\ reported' = 0
    /\ renderings' = <<>>
    /\ font_response' = "none"
    /\ UNCHANGED <<words_file, fs, font_calls, package, word, font_arg,
                   textbbox, typeface, reconcilerVars, unicode_char>>

\* One run of the script.
NextDeck ==
    \/ LoadWords
    \/ DownloadFontStart
    \/ TryFontUrl
    \/ FindLocalFont
    \/ UseFallbackFont
    \/ GenerateImagesGate
    \/ GenerateImage
    \/ ImageLost
    \/ CreateNote
    \/ WritePackage

SpecDeck == InitDeck /\ [][NextDeck]_vars

\* Runs of the script one after the other, up to MaxFontCalls calls of
\* download_font, on a word file of one entry.
InitFont ==
    /\ InitDeck
    /\ words_file.state = "ok"
    /\ Len(words_file.entries) = 1
    /\ package.kind = "absent"
    /\ textbbox = "ok"
    /\ typeface = "loads"

SpecFont == InitFont /\ [][NextDeck \/ RunDeckAgain]_vars

\* ------------------------------------------------ claims on the deck

\* C13: when create_anki_deck has written the package, the deck holds one
\* note for each entry of the word mapping, in the mapping's order, and the
\* number printed after "Number of cards" is the number of notes times the
\* number of templates of TOKI_PONA_MODEL, with images or without.
Thm_C13 ==
    pc = "done" =>
        /\ Len(notes) = Len(words_data)
        /\ \A i \in 1..Len(notes) : notes[i].Word = words_data[i].word
        /\ package.notes = notes
        /\ reported = Len(notes) * Len(TOKI_PONA_MODEL.templates)

\* Two words without any image: two notes, four cards.
Wit_C13 ==
    /\ pc = "done"
    /\ Len(words_data) = 2
    /\ word_to_image = <<>>
    /\ Len(notes) = 2
    /\ reported = 4

\* C14: the image field of a note is empty unless the image file of the word
\* is there and not empty, and then it is the name of the file without its
\* directory; a word without an image has its note all the same, and so have
\* the words after it.
Thm_C14 ==
    /\ \A i \in 1..Len(notes) :
        LET w == notes[i].Word
            here == /\ w \in DOMAIN word_to_image
                    /\ word_to_image[w] \in DOMAIN image_files
                    /\ image_files[word_to_image[w]].state = "valid"
        IN  notes[i].SitelenPonaImage =
                IF here THEN w \o <<".", "p", "n", "g">> ELSE <<>>
    /\ pc \in {"write", "done"} => Len(notes) = Len(words_data)

\* The first word has an empty image file and the second a good one: the
\* first note has no image, the second has.
Wit_C14 ==
    /\ pc = "done"
    /\ Len(notes) = 2
    /\ notes[1].Word \in DOMAIN word_to_image
    /\ image_files[word_to_image[notes[1].Word]].state = "empty"
    /\ notes[1].SitelenPonaImage = <<>>
    /\ notes[2].SitelenPonaImage # <<>>

\* C15: once the images are made and no image file failed to be written,
\* every word of the mapping has an image: drawn with the typeface when a
\* sitelen pona typeface is there and works, and by the recipes or their
\* fallbacks otherwise.  The code skips the images altogether when
\* download_font found no font at all.
CE_C15 ==
    ( /\ pc \in {"notes", "write", "done"}
      /\ \A path \in DOMAIN image_files : image_files[path].state = "valid" )
        => \A i \in 1..Len(words_data) :
            LET w == words_data[i].word
                usable ==
                    /\ sitelen_pona_font_available(font_path, TRUE)
                    /\ typeface = "loads"
                    /\ textbbox = "ok"
            IN  /\ w \in DOMAIN word_to_image
                /\ word_to_image[w] \in DOMAIN image_files
                /\ IF usable
                   THEN image_files[word_to_image[w]].by = "font"
                   ELSE image_files[word_to_image[w]].by
                            \in {"recipe", "fallback", "ultimate"}

\* C17: when toki_pona_words.json is missing or is no JSON, the run ends at
\* the load: no font is requested or looked for, no image is made, no note
\* is made, and the output file is as it was.
Thm_C17 ==
    /\ words_file.state # "ok" => pc \in {"deck_start", "crashed"}
    /\ pc = "crashed" =>
        /\ requests = <<>>
        /\ font_calls = <<>>
        /\ font_path = <<>>
        /\ image_files = <<>>
        /\ word_to_image = <<>>
        /\ notes = <<>>
        /\ package.kind # "written"
        /\ reported = 0

\* The word file is no JSON and a package of an earlier run is there: the
\* run has ended and the package is the old one.
Wit_C17 ==
    /\ pc = "crashed"
    /\ words_file.state = "unparsable"
    /\ package.kind = "old"

\* C19: a call of download_font after a call that stored a downloaded font
\* makes no request and returns the stored font.  The font of the first URL
\* is stored as linjapona.ttf, which download_font does not look for.
CE_C19 ==
    \A k \in 1..(Len(font_calls) - 1) :
        font_calls[k].how = "download" =>
            /\ font_calls[k + 1].requests = <<>>
            /\ font_calls[k + 1].returned = font_calls[k].returned

\* ------------------------------------------------ test_unicode_sitelen

\* The string a Python literal of one escape and the characters after it
\* denotes, as codepoints: \U takes eight hexadecimal digits and \u four;
\* what follows the digits taken stands for itself.
str_of_literal(lit) ==
    LET HexDigit(c) ==
            CASE c = "0" -> 0 [] c = "1" -> 1 [] c = "2" -> 2 [] c = "3" -> 3
              [] c = "4" -> 4 [] c = "5" -> 5 [] c = "6" -> 6 [] c = "7" -> 7
              [] c = "8" -> 8 [] c = "9" -> 9 [] c = "A" -> 10
              [] c = "B" -> 11 [] c = "C" -> 12 [] c = "D" -> 13
              [] c = "E" -> 14 [] c = "F" -> 15
        RECURSIVE HexValue(_)
        HexValue(ds) ==
            IF ds = <<>> THEN 0
            ELSE 16 * HexValue(SubSeq(ds, 1, Len(ds) - 1))
                     + HexDigit(ds[Len(ds)])
        ord_char(c) ==
            IF HexDigit(c) < 10 THEN 48 + HexDigit(c) ELSE 55 + HexDigit(c)
        taken == IF lit.escape = "U" THEN 8 ELSE 4
    IN  <<HexValue(SubSeq(lit.digits, 1, taken))>>
            \o [i \in 1..(Len(lit.digits) - taken) |->
                   ord_char(lit.digits[taken + i])]

\* SITELEN_PONA_UNICODE, as it is written: the escape and the digits of each
\* value.
SITELEN_PONA_UNICODE ==
    (<<"a">> :>
        [escape |-> "U", digits |-> <<"0", "0", "0", "F", "1", "9", "0", "0">>])
    @@ (<<"a", "k", "e", "s", "i">> :>
        [escape |-> "u", digits |-> <<"F", "1", "9", "0", "1">>])
    @@ (<<"a", "l", "a">> :>
        [escape |-> "u", digits |-> <<"F", "1", "9", "0", "2">>])
    @@ (<<"a", "l", "a", "s", "a">> :>
        [escape |-> "u", digits |-> <<"F", "1", "9", "0", "3">>])
    @@ (<<"a", "l", "e">> :>
        [escape |-> "u", digits |-> <<"F", "1", "9", "0", "4">>])
    @@ (<<"a", "l", "i">> :>
        [escape |-> "u", digits |-> <<"F", "1", "9", "0", "4">>])
    @@ (<<"a", "n", "p", "a">> :>
        [escape |-> "u", digits |-> <<"F", "1", "9", "0", "5">>])
    @@ (<<"a", "n", "t", "e">> :>
        [escape |-> "u", digits |-> <<"F", "1", "9", "0", "6">>])
    @@ (<<"a", "n", "u">> :>
        [escape |-> "u", digits |-> <<"F", "1", "9", "0", "7">>])
    @@ (<<"a", "w", "e", "n">> :>
        [escape |-> "u", digits |-> <<"F", "1", "9", "0", "8">>])
    @@ (<<"e">> :>
        [escape |-> "u", digits |-> <<"F", "1", "9", "0", "9">>])
    @@ (<<"e", "n">> :>
        [escape |-> "u", digits |-> <<"F", "1", "9", "0", "A">>])
    @@ (<<"e", "s", "u", "n">> :>
        [escape |-> "u", digits |-> <<"F", "1", "9", "0", "B">>])
    @@ (<<"i", "j", "o">> :>
        [escape |-> "u", digits |-> <<"F", "1", "9", "0", "C">>])
    @@ (<<"i", "k", "e">> :>
        [escape |-> "u", digits |-> <<"F", "1", "9", "0", "D">>])
    @@ (<<"i", "l", "o">> :>
        [escape |-> "u", digits |-> <<"F", "1", "9", "0", "E">>])
    @@ (<<"i", "n", "s", "a">> :>
        [escape |-> "u", digits |-> <<"F", "1", "9", "0", "F">>])
    @@ (<<"j", "a", "k", "i">> :>
        [escape |-> "u", digits |-> <<"F", "1", "9", "1", "0">>])
    @@ (<<"j", "a", "n">> :>
        [escape |-> "u", digits |-> <<"F", "1", "9", "1", "1">>])
    @@ (<<"j", "e", "l", "o">> :>
        [escape |-> "u", digits |-> <<"F", "1", "9", "1", "2">>])
    @@ (<<"j", "o">> :>
        [escape |-> "u", digits |-> <<"F", "1", "9", "1", "3">>])
    @@ (<<"k", "a", "l", "a">> :>
        [escape |-> "u", digits |-> <<"F", "1", "9", "1", "4">>])
    @@ (<<"k", "a", "l", "a", "m", "a">> :>
        [escape |-> "u", digits |-> <<"F", "1", "9", "1", "5">>])
    @@ (<<"k", "a", "m", "a">> :>
        [escape |-> "u", digits |-> <<"F", "1", "9", "1", "6">>])
    @@ (<<"k", "a", "s", "i">> :>
        [escape |-> "u", digits |-> <<"F", "1", "9", "1", "7">>])
    @@ (<<"k", "e", "n">> :>
        [escape |-> "u", digits |-> <<"F", "1", "9", "1", "8">>])
    @@ (<<"k", "e", "p", "e", "k", "e", "n">> :>
        [escape |-> "u", digits |-> <<"F", "1", "9", "1", "9">>])
    @@ (<<"k", "i", "l", "i">> :>
        [escape |-> "u", digits |-> <<"F", "1", "9", "1", "A">>])
    @@ (<<"k", "i", "w", "e", "n">> :>
        [escape |-> "u", digits |-> <<"F", "1", "9", "1", "B">>])
    @@ (<<"k", "o">> :>
        [escape |-> "u", digits |-> <<"F", "1", "9", "1", "C">>])
    @@ (<<"k", "o", "n">> :>
        [escape |-> "u", digits |-> <<"F", "1", "9", "1", "D">>])
    @@ (<<"k", "u", "l", "e">> :>
        [escape |-> "u", digits |-> <<"F", "1", "9", "1", "E">>])
    @@ (<<"k", "u", "l", "u", "p", "u">> :>
        [escape |-> "u", digits |-> <<"F", "1", "9", "1", "F">>])
    @@ (<<"k", "u", "t", "e">> :>
        [escape |-> "u", digits |-> <<"F", "1", "9", "2", "0">>])
    @@ (<<"l", "a">> :>
        [escape |-> "u", digits |-> <<"F", "1", "9", "2", "1">>])
    @@ (<<"l", "a", "p", "e">> :>
        [escape |-> "u", digits |-> <<"F", "1", "9", "2", "2">>])
    @@ (<<"l", "a", "s", "o">> :>
        [escape |-> "u", digits |-> <<"F", "1", "9", "2", "3">>])
    @@ (<<"l", "a", "w", "a">> :>
        [escape |-> "u", digits |-> <<"F", "1", "9", "2", "4">>])
    @@ (<<"l", "e", "n">> :>
        [escape |-> "u", digits |-> <<"F", "1", "9", "2", "5">>])
    @@ (<<"l", "e", "t", "e">> :>
        [escape |-> "u", digits |-> <<"F", "1", "9", "2", "6">>])
    @@ (<<"l", "i">> :>
        [escape |-> "u", digits |-> <<"F", "1", "9", "2", "7">>])
    @@ (<<"l", "i", "l", "i">> :>
        [escape |-> "u", digits |-> <<"F", "1", "9", "2", "8">>])
    @@ (<<"l", "i", "n", "j", "a">> :>
        [escape |-> "u", digits |-> <<"F", "1", "9", "2", "9">>])
    @@ (<<"l", "i", "p", "u">> :>
        [escape |-> "u", digits |-> <<"F", "1", "9", "2", "A">>])
    @@ (<<"l", "o", "j", "e">> :>
        [escape |-> "u", digits |-> <<"F", "1", "9", "2", "B">>])
    @@ (<<"l", "o", "n">> :>
        [escape |-> "u", digits |-> <<"F", "1", "9", "2", "C">>])
    @@ (<<"l", "u", "k", "a">> :>
        [escape |-> "u", digits |-> <<"F", "1", "9", "2", "D">>])
    @@ (<<"l", "u", "k", "i", "n">> :>
        [escape |-> "u", digits |-> <<"F", "1", "9", "2", "E">>])
    @@ (<<"l", "u", "p", "a">> :>
        [escape |-> "u", digits |-> <<"F", "1", "9", "2", "F">>])
    @@ (<<"m", "a">> :>
        [escape |-> "u", digits |-> <<"F", "1", "9", "3", "0">>])
    @@ (<<"m", "a", "m", "a">> :>
        [escape |-> "u", digits |-> <<"F", "1", "9", "3", "1">>])
    @@ (<<"m", "a", "n", "i">> :>
        [escape |-> "u", digits |-> <<"F", "1", "9", "3", "2">>])
    @@ (<<"m", "e", "l", "i">> :>
        [escape |-> "u", digits |-> <<"F", "1", "9", "3", "3">>])
    @@ (<<"m", "i">> :>
        [escape |-> "u", digits |-> <<"F", "1", "9", "3", "4">>])
    @@ (<<"m", "i", "j", "e">> :>
        [escape |-> "u", digits |-> <<"F", "1", "9", "3", "5">>])
    @@ (<<"m", "o", "k", "u">> :>
        [escape |-> "u", digits |-> <<"F", "1", "9", "3", "6">>])
    @@ (<<"m", "o", "l", "i">> :>
        [escape |-> "u", digits |-> <<"F", "1", "9", "3", "7">>])
    @@ (<<"m", "o", "n", "s", "i">> :>
        [escape |-> "u", digits |-> <<"F", "1", "9", "3", "8">>])
    @@ (<<"m", "u">> :>
        [escape |-> "u", digits |-> <<"F", "1", "9", "3", "9">>])
    @@ (<<"m", "u", "n">> :>
        [escape |-> "u", digits |-> <<"F", "1", "9", "3", "A">>])
    @@ (<<"m", "u", "s", "i">> :>
        [escape |-> "u", digits |-> <<"F", "1", "9", "3", "B">>])
    @@ (<<"m", "u", "t", "e">> :>
        [escape |-> "u", digits |-> <<"F", "1", "9", "3", "C">>])
    @@ (<<"n", "a", "n", "p", "a">> :>
        [escape |-> "u", digits |-> <<"F", "1", "9", "3", "D">>])
    @@ (<<"n", "a", "s", "a">> :>
        [escape |-> "u", digits |-> <<"F", "1", "9", "3", "E">>])
    @@ (<<"n", "a", "s", "i", "n">> :>
        [escape |-> "u", digits |-> <<"F", "1", "9", "3", "F">>])
    @@ (<<"n", "e", "n", "a">> :>
        [escape |-> "u", digits |-> <<"F", "1", "9", "4", "0">>])
    @@ (<<"n", "i">> :>
        [escape |-> "u", digits |-> <<"F", "1", "9", "4", "1">>])
    @@ (<<"n", "i", "m", "i">> :>
        [escape |-> "u", digits |-> <<"F", "1", "9", "4", "2">>])
    @@ (<<"n", "o", "k", "a">> :>
        [escape |-> "u", digits |-> <<"F", "1", "9", "4", "3">>])
    @@ (<<"o">> :>
        [escape |-> "u", digits |-> <<"F", "1", "9", "4", "4">>])
    @@ (<<"o", "k", "o">> :>
        [escape |-> "u", digits |-> <<"F", "1", "9", "4", "5">>])
    @@ (<<"o", "l", "i", "n">> :>
        [escape |-> "u", digits |-> <<"F", "1", "9", "4", "6">>])
    @@ (<<"o", "n", "a">> :>
        [escape |-> "u", digits |-> <<"F", "1", "9", "4", "7">>])
    @@ (<<"o", "p", "e", "n">> :>
        [escape |-> "u", digits |-> <<"F", "1", "9", "4", "8">>])
    @@ (<<"p", "a", "k", "a", "l", "a">> :>
        [escape |-> "u", digits |-> <<"F", "1", "9", "4", "9">>])
    @@ (<<"p", "a", "l", "i">> :>
        [escape |-> "u", digits |-> <<"F", "1", "9", "4", "A">>])
    @@ (<<"p", "a", "l", "i", "s", "a">> :>
        [escape |-> "u", digits |-> <<"F", "1", "9", "4", "B">>])
    @@ (<<"p", "a", "n">> :>
        [escape |-> "u", digits |-> <<"F", "1", "9", "4", "C">>])
    @@ (<<"p", "a", "n", "a">> :>
        [escape |-> "u", digits |-> <<"F", "1", "9", "4", "D">>])
    @@ (<<"p", "i">> :>
        [escape |-> "u", digits |-> <<"F", "1", "9", "4", "E">>])
    @@ (<<"p", "i", "l", "i", "n">> :>
        [escape |-> "u", digits |-> <<"F", "1", "9", "4", "F">>])
    @@ (<<"p", "i", "m", "e", "j", "a">> :>
        [escape |-> "u", digits |-> <<"F", "1", "9", "5", "0">>])
    @@ (<<"p", "i", "n", "i">> :>
        [escape |-> "u", digits |-> <<"F", "1", "9", "5", "1">>])
    @@ (<<"p", "i", "p", "i">> :>
        [escape |-> "u", digits |-> <<"F", "1", "9", "5", "2">>])
    @@ (<<"p", "o", "k", "a">> :>
        [escape |-> "u", digits |-> <<"F", "1", "9", "5", "3">>])
    @@ (<<"p", "o", "k", "i">> :>
        [escape |-> "u", digits |-> <<"F", "1", "9", "5", "4">>])
    @@ (<<"p", "o", "n", "a">> :>
        [escape |-> "u", digits |-> <<"F", "1", "9", "5", "5">>])
    @@ (<<"p", "u">> :>
        [escape |-> "u", digits |-> <<"F", "1", "9", "5", "6">>])
    @@ (<<"s", "a", "m", "a">> :>
        [escape |-> "u", digits |-> <<"F", "1", "9", "5", "7">>])
    @@ (<<"s", "e", "l", "i">> :>
        [escape |-> "u", digits |-> <<"F", "1", "9", "5", "8">>])
    @@ (<<"s", "e", "l", "o">> :>
        [escape |-> "u", digits |-> <<"F", "1", "9", "5", "9">>])
    @@ (<<"s", "e", "m", "e">> :>
        [escape |-> "u", digits |-> <<"F", "1", "9", "5", "A">>])
    @@ (<<"s", "e", "w", "i">> :>
        [escape |-> "u", digits |-> <<"F", "1", "9", "5", "B">>])
    @@ (<<"s", "i", "j", "e", "l", "o">> :>
        [escape |-> "u", digits |-> <<"F", "1", "9", "5", "C">>])
    @@ (<<"s", "i", "k", "e">> :>
        [escape |-> "u", digits |-> <<"F", "1", "9", "5", "D">>])
    @@ (<<"s", "i", "n">> :>
        [escape |-> "u", digits |-> <<"F", "1", "9", "5", "E">>])
    @@ (<<"s", "i", "n", "a">> :>
        [escape |-> "u", digits |-> <<"F", "1", "9", "5", "F">>])
    @@ (<<"s", "i", "n", "p", "i", "n">> :>
        [escape |-> "u", digits |-> <<"F", "1", "9", "6", "0">>])
    @@ (<<"s", "i", "t", "e", "l", "e", "n">> :>
        [escape |-> "u", digits |-> <<"F", "1", "9", "6", "1">>])
    @@ (<<"s", "o", "n", "a">> :>
        [escape |-> "u", digits |-> <<"F", "1", "9", "6", "2">>])
    @@ (<<"s", "o", "w", "e", "l", "i">> :>
        [escape |-> "u", digits |-> <<"F", "1", "9", "6", "3">>])
    @@ (<<"s", "u", "l", "i">> :>
        [escape |-> "u", digits |-> <<"F", "1", "9", "6", "4">>])
    @@ (<<"s", "u", "n", "o">> :>
        [escape |-> "u", digits |-> <<"F", "1", "9", "6", "5">>])
    @@ (<<"s", "u", "p", "a">> :>
        [escape |-> "u", digits |-> <<"F", "1", "9", "6", "6">>])
    @@ (<<"s", "u", "w", "i">> :>
        [escape |-> "u", digits |-> <<"F", "1", "9", "6", "7">>])
    @@ (<<"t", "a", "n">> :>
        [escape |-> "u", digits |-> <<"F", "1", "9", "6", "8">>])
    @@ (<<"t", "a", "s", "o">> :>
        [escape |-> "u", digits |-> <<"F", "1", "9", "6", "9">>])
    @@ (<<"t", "a", "w", "a">> :>
        [escape |-> "u", digits |-> <<"F", "1", "9", "6", "A">>])
    @@ (<<"t", "e", "l", "o">> :>
        [escape |-> "u", digits |-> <<"F", "1", "9", "6", "B">>])
    @@ (<<"t", "e", "n", "p", "o">> :>
        [escape |-> "u", digits |-> <<"F", "1", "9", "6", "C">>])
    @@ (<<"t", "o", "k", "i">> :>
        [escape |-> "u", digits |-> <<"F", "1", "9", "6", "D">>])
    @@ (<<"t", "o", "m", "o">> :>
        [escape |-> "u", digits |-> <<"F", "1", "9", "6", "E">>])
    @@ (<<"t", "u">> :>
        [escape |-> "u", digits |-> <<"F", "1", "9", "6", "F">>])
    @@ (<<"u", "n", "p", "a">> :>
        [escape |-> "u", digits |-> <<"F", "1", "9", "7", "0">>])
    @@ (<<"u", "t", "a">> :>
        [escape |-> "u", digits |-> <<"F", "1", "9", "7", "1">>])
    @@ (<<"u", "t", "a", "l", "a">> :>
        [escape |-> "u", digits |-> <<"F", "1", "9", "7", "2">>])
    @@ (<<"w", "a", "l", "o">> :>
        [escape |-> "u", digits |-> <<"F", "1", "9", "7", "3">>])
    @@ (<<"w", "a", "n">> :>
        [escape |-> "u", digits |-> <<"F", "1", "9", "7", "4">>])
    @@ (<<"w", "a", "s", "o">> :>
        [escape |-> "u", digits |-> <<"F", "1", "9", "7", "5">>])
    @@ (<<"w", "a", "w", "a">> :>
        [escape |-> "u", digits |-> <<"F", "1", "9", "7", "6">>])
    @@ (<<"w", "e", "k", "a">> :>
        [escape |-> "u", digits |-> <<"F", "1", "9", "7", "7">>])
    @@ (<<"w", "i", "l", "e">> :>
        [escape |-> "u", digits |-> <<"F", "1", "9", "7", "8">>])

\* test_unicode_sitelen_pona is about to look a word up; the words are those
\* of the table.
InitUnicode ==
    /\ NoReconciler
    /\ NoDeck
    /\ pc = "unicode_test"
    /\ word \in DOMAIN SITELEN_PONA_UNICODE
    /\ font_arg = "none"
    /\ textbbox = "ok"
    /\ typeface = "loads"
    /\ renderings = <<>>
    /\ unicode_char = <<>>

\* test_unicode_sitelen_pona, lines 141-142: unicode_char =
\* SITELEN_PONA_UNICODE[word].
LookupUnicode ==
    /\ pc = "unicode_test"
    /\ unicode_char' = str_of_literal(SITELEN_PONA_UNICODE[word])
    /\ pc' = "looked_up"
    /\ UNCHANGED <<word, font_arg, textbbox, typeface, renderings, deckVars,
                   reconcilerVars>>

\* test_unicode_sitelen_pona, line 143: ord(unicode_char) is printed; ord
\* raises TypeError for a string that is not one character long.
PrintOrd ==
    /\ pc = "looked_up"
    /\ pc' = IF Len(unicode_char) = 1 THEN "printed" ELSE "type_error"
    /\ UNCHANGED <<word, font_arg, textbbox, typeface, renderings, deckVars,
                   reconcilerVars, unicode_char>>

SpecUnicode == InitUnicode /\ [][LookupUnicode \/ PrintOrd]_vars

\* C18: the value looked up for a word is one codepoint, from U+F1900
\* (989440) to U+F19FF (989695), ord of it is printed, and no other word but the alias of the
\* pair ale, ali has the same value.  All values but that of 'a' are written
\* with \u and five digits, which Python reads as a character of U+F190 to
\* U+F197 and the last digit after it.
CE_C18 ==
    pc # "unicode_test" =>
        /\ Len(unicode_char) = 1
        /\ \A i \in 1..Len(unicode_char) :
               /\ unicode_char[i] >= 989440
               /\ unicode_char[i] <= 989695
        /\ pc # "type_error"
        /\ \A other \in DOMAIN SITELEN_PONA_UNICODE :
               str_of_literal(SITELEN_PONA_UNICODE[other]) = unicode_char
                   => \/ other = word
                      \/ {other, word} = {<<"a", "l", "e">>, <<"a", "l", "i">>}

\* ------------------------------------------------------ simulate_cleanup

\* simulate_releases(): the twelve mock releases.
simulate_releases ==
    << [id |-> 1, name |-> "Toki Pona Anki Deck 2025.05.29-05.13.41",
         tag |-> "v2025.05.29-05.13.41"],
       [id |-> 2, name |-> "Toki Pona Anki Deck 2025.05.28-14.22.15",
         tag |-> "v2025.05.28-14.22.15"],
       [id |-> 3, name |-> "Toki Pona Anki Deck 2025.05.28-13.45.32",
         tag |-> "v2025.05.28-13.45.32"],
       [id |-> 4, name |-> "Toki Pona Anki Deck 2025.05.28-12.18.44",
         tag |-> "v2025.05.28-12.18.44"],
       [id |-> 5, name |-> "Toki Pona Anki Deck 2025.05.28-11.55.21",
         tag |-> "v2025.05.28-11.55.21"],
       [id |-> 6, name |-> "Toki Pona Anki Deck 2025.05.28-10.33.17",
         tag |-> "v2025.05.28-10.33.17"],
       [id |-> 7, name |-> "Toki Pona Anki Deck 2025.05.28-09.27.58",
         tag |-> "v2025.05.28-09.27.58"],
       [id |-> 8, name |-> "Toki Pona Anki Deck 2025.05.28-08.14.39",
         tag |-> "v2025.05.28-08.14.39"],
       [id |-> 9, name |-> "Toki Pona Anki Deck 2025.05.28-07.48.12",
         tag |-> "v2025.05.28-07.48.12"],
       [id |-> 10, name |-> "Toki Pona Anki Deck 2025.05.27-22.35.56",
         tag |-> "v2025.05.27-22.35.56"],
       [id |-> 11, name |-> "Toki Pona Anki Deck 2025.05.27-21.18.43",
         tag |-> "v2025.05.27-21.18.43"],
       [id |-> 12, name |-> "Toki Pona Anki Deck 2025.05.27-20.52.17",
         tag |-> "v2025.05.27-20.52.17"] >>

\* python simulate_cleanup.py is started against a remote.
InitSimulate ==
    /\ NoBuild
    /\ variant = "simulate"
    /\ environ = NoEnv
    /\ files = NoFiles
    /\ os_environ = NoEnv
    /\ remote \in RemoteLists
    /\ remoteAtStart = remote
    /\ pc = "simulate"
    /\ FreshLocals
    /\ run = "first"
    /\ relation = "none"
    /\ firstRun = NoRun
    /\ invocations = <<>>

\* try_get_actual_releases and main, lines 54-59: "gh release list" gives
\* the list, or None when the command fails or prints no JSON; "if
\* releases" takes the list when it is not empty and the mock releases
\* otherwise.
SimulateGetReleases ==
    /\ variant = "simulate"
    /\ pc = "simulate"
    /\ \E outcome \in ListOutcomes :
        LET truthy == outcome = "ok" /\ RemotePage(remote) # <<>>
        IN  /\ listOutcome' = outcome
            /\ releases' = IF truthy THEN RemotePage(remote)
                           ELSE simulate_releases
    /\ Goto("simulate_partition")
    /\ UNCHANGED <<inputVars, os_environ, remote, token, releases_to_delete,
                   keep_release_found, next_index, success_count,
                   failed_count, warned, summary, answers, authOutcome,
                   deleteCalls, runVars>>
    /\ UNCHANGED buildVars

\* main, lines 66-95: the releases that match neither KEEP_RELEASE nor
\* KEEP_TAG (lines 43-44) are listed as "Would delete", with the commands
\* that would be executed; none is executed.
SimulatePartition ==
    /\ variant = "simulate"
    /\ pc = "simulate_partition"
    /\ LET Kept(release) ==
               \/ release.name = "Toki Pona Anki Deck 2025.05.29-05.13.41"
               \/ release.tag = "v2025.05.29-05.13.41"
           Deleted(release) == ~Kept(release)
       IN  /\ releases_to_delete' = SelectSeq(releases, Deleted)
           /\ keep_release_found' = (SelectSeq(releases, Kept) # <<>>)
           /\ warned' = (SelectSeq(releases, Kept) = <<>>)
    /\ Exit(0, "simulated")
    /\ UNCHANGED <<inputVars, os_environ, remote, token, releases,
                   next_index, success_count, failed_count, summary, answers,
                   callVars, runVars>>
    /\ UNCHANGED buildVars

SpecSimulate ==
    InitSimulate /\ [][SimulateGetReleases \/ SimulatePartition]_vars

\* C20: simulate_cleanup.py issues no delete call, and what it lists as
\* "Would delete" is what cleanup_releases.py would delete for the listing
\* the command gave: the releases of the listing without those that match
\* the keep name or tag (none for an empty listing), and the eleven mock
\* releases besides the keep release when the command gave no listing.  An
\* empty listing is taken for no listing, and the mock releases are shown.
CE_C20 ==
    ( /\ variant = "simulate" /\ pc = "exited" ) =>
        /\ deleteCalls = <<>>
        /\ remote = remoteAtStart
        /\ IF listOutcome = "ok"
           THEN releases_to_delete = PartitionDelete(RemotePage(remote))
           ELSE /\ Len(releases_to_delete) = 11
                /\ releases_to_delete = Tail(simulate_releases)

\* C21: in a run no candidate is tried twice: the delete calls issued so far
\* are for the first candidates of releases_to_delete, one call each and in
\* that order, a call that failed is followed by the call for the next
\* candidate, and when the loop has ended the number of calls is
\* len(releases_to_delete).
Thm_C21 ==
    /\ Len(deleteCalls) <= Len(releases_to_delete)
    /\ \A k \in 1..Len(deleteCalls) :
           /\ deleteCalls[k].id = releases_to_delete[k].id
           /\ deleteCalls[k].tag = releases_to_delete[k].tag
    /\ \A i, j \in 1..Len(deleteCalls) :
           i # j => deleteCalls[i].id # deleteCalls[j].id
    /\ pc = "delete" => Len(deleteCalls) = next_index - 1
    /\ LoopEnded => Len(deleteCalls) = Len(releases_to_delete)

\* A run of cleanup_releases_api.py has ended after three delete calls, the
\* first two of which failed.
Wit_C21 ==
    /\ variant = "api"
    /\ pc = "exited"
    /\ Len(deleteCalls) = 3
    /\ ~deleteCalls[1].ok
    /\ ~deleteCalls[2].ok
    /\ deleteCalls[3].ok

\* C22: cleanup_releases.py issues a delete call only when every prompt of
\* the run was answered y or Y: the confirmation, and before it the
\* continue-anyway prompt when no keep match was found.  Any other answer
\* ends the run without a delete call, with status 0 at the confirmation and
\* status 1 at the continue-anyway prompt.
Thm_C22 ==
    variant = "cli" =>
        /\ deleteCalls # <<>> =>
               /\ Len(answers) = IF keep_release_found THEN 1 ELSE 2
               /\ \A k \in 1..Len(answers) : answers[k] \in {"y", "Y"}
        /\ (\E k \in 1..Len(answers) : answers[k] \notin {"y", "Y"}) =>
               /\ pc = "exited"
               /\ deleteCalls = <<>>
               /\ remote = remoteAtStart
               /\ answers[Len(answers)] \notin {"y", "Y"}
               /\ IF Len(answers) = 1 /\ ~keep_release_found
                  THEN ending = "declined_continue" /\ exit_code = 1
                  ELSE ending = "declined_confirm" /\ exit_code = 0

\* No keep match was found, the user answered Y and then y, and a release
\* was deleted.
Wit_C22 ==
    /\ variant = "cli"
    /\ ~keep_release_found
    /\ answers = <<"Y", "y">>
    /\ \E k \in 1..Len(deleteCalls) : deleteCalls[k].ok

CE_C24 ==
    (variant \in {"direct", "final"} /\ pc = "exited") =>
        /\ exit_code = 0 <=>
               /\ ending \notin {"no_token", "auth_failed"}
               /\ listOutcome \notin {"error", "garbage"}
               /\ failed_count = 0
        /\ failed_count > 0 =>
               /\ exit_code = 1
               /\ Len(deleteCalls) = Len(releases_to_delete)

\* C25: a summary says that the keep release was kept (cleanup_releases,
\* _api, _direct: "Kept release", cleanup_releases_final: "Preserved
\* release") only in a run whose listing held a record with the keep name
\* or the keep tag.  cleanup_releases.py prints "Kept release" in every
\* summary.
CE_C25 ==
    (summary.printed /\ summary.kept) =>
        \E r \in Range(releases) : r.name = KEEP_RELEASE \/ r.tag = KEEP_TAG

\* C30: when cleanup_releases_final.py has printed its summary, a delete call
\* was made and counted, and the summary ends with "completed successfully"
\* when no call failed and with "Partial success" when one did: "No action
\* needed" is not printed.
Thm_C30 ==
    (variant = "final" /\ summary.printed) =>
        /\ deleteCalls # <<>>
        /\ success_count + failed_count >= 1
        /\ summary.verdict \in {"completed", "partial"}
        /\ summary.verdict = "completed" <=> failed_count = 0
        /\ summary.verdict = "partial" <=> failed_count > 0

\* The summary of a second run, after two delete calls the last of which
\* succeeded, that follows a run whose two delete calls failed.
Wit_C30 ==
    /\ variant = "final"
    /\ summary.printed
    /\ Len(deleteCalls) = 2
    /\ deleteCalls[2].ok
    /\ summary.verdict = IF deleteCalls[1].ok THEN "completed" ELSE "partial"
    /\ run = "second"
    /\ firstRun.ending = "summary"
    /\ firstRun.failed_count = 2

\* ------------------------------------------- two runs at the same time

\* The longest remote release list two concurrent runs are started against.
MaxRaceReleases == 2

Invocations == 1..2

\* cleanup_releases_api.main's locals before main has run, for one of the
\* concurrent runs.
FreshInvocation ==
    [pc |-> "list", releases |-> <<>>, releases_to_delete |-> <<>>,
     keep_release_found |-> FALSE, next_index |-> 1, success_count |-> 0,
     failed_count |-> 0, deleteCalls |-> <<>>, ending |-> "none"]

\* Two runs of cleanup_releases_api.py are started with a token in
\* GITHUB_TOKEN against the same remote.
InitRace ==
    /\ NoBuild
    /\ variant = "api"
    /\ environ = EnvWith("GITHUB_TOKEN", <<"a">>)
    /\ files = NoFiles
    /\ os_environ = environ
    /\ remote \in UNION { RemoteListsOfLen(n) : n \in 0..MaxRaceReleases }
    /\ remoteAtStart = remote
    /\ pc = "race"
    /\ FreshLocals
    /\ run = "first"
    /\ relation = "none"
    /\ firstRun = NoRun
    /\ invocations = [i \in Invocations |-> FreshInvocation]

\* What the concurrent runs leave alone: the variables of the single run.
RaceUnchanged ==
    /\ UNCHANGED <<inputVars, os_environ, pc, localVars, exitVars, callVars,
                   remoteAtStart, run, relation, firstRun>>
    /\ UNCHANGED buildVars

\* cleanup_releases_api.main of one run, from the token check to the plan:
\* the listing call reads the remote as it is now, and the steps after it
\* (the partition, the warning, "if not releases_to_delete") touch only the
\* run's own locals.
RaceListReleases ==
    /\ pc = "race"
    /\ Truthy(get_github_token(os_environ, files))
    /\ \E i \in Invocations, outcome \in ListOutcomes :
        /\ invocations[i].pc = "list"
        /\ LET rs == ListedReleases(outcome, remote)
               list_ending == UncaughtListEnding(outcome, rs)
               candidates == PartitionDelete(rs)
           IN  invocations' =
                   [invocations EXCEPT ![i] =
                       [@ EXCEPT
                          !.releases = rs,
                          !.releases_to_delete =
                              IF list_ending = "go" THEN candidates ELSE <<>>,
                          !.keep_release_found =
                              list_ending = "go" /\ PartitionKeepFound(rs),
                          !.ending =
                              IF list_ending # "go" THEN list_ending
                              ELSE IF candidates = <<>>
                              THEN "nothing_to_delete"
                              ELSE "none",
                          !.pc =
                              IF list_ending # "go" \/ candidates = <<>>
                              THEN "exited"
                              ELSE "delete"]]
    /\ UNCHANGED remote
    /\ RaceUnchanged

\* One iteration of the delete loop of one run: DELETE .../releases/<id>
\* answers 204 only for a release the remote still holds, and the summary
\* follows the last iteration.
RaceDeleteRelease ==
    /\ pc = "race"
    /\ \E i \in Invocations, ok \in BOOLEAN :
        LET inv == invocations[i]
            n == Len(inv.releases_to_delete)
        IN  /\ inv.pc = "delete"
            /\ inv.next_index <= n
            /\ LET release == inv.releases_to_delete[inv.next_index]
                   deleted == delete_release(DeleteResponse(ok))
                   after == LoopAfter(ok, inv.next_index, n)
               IN  /\ ok => HasId(remote, release.id)
                   /\ remote' = IF ok THEN RemoteDeleteById(remote, release.id)
                                ELSE remote
                   /\ invocations' =
                          [invocations EXCEPT ![i] =
                              [@ EXCEPT
                                 !.deleteCalls =
                                     Append(@, [id |-> release.id,
                                                tag |-> release.tag,
                                                by |-> "id", ok |-> ok,
                                                reported |-> deleted]),
                                 !.success_count =
                                     SuccessCountAfter(deleted, @),
                                 !.failed_count =
                                     FailedCountAfter(deleted, @),
                                 !.next_index = NextCandidate(deleted, @),
                                 !.ending = IF after = "summary"
                                            THEN "summary" ELSE "none",
                                 !.pc = after]]
    /\ RaceUnchanged

SpecRace == InitRace /\ [][RaceListReleases \/ RaceDeleteRelease]_vars

\* C26: when two runs of cleanup_releases_api.py work on the same remote at
\* the same time, no release that matches KEEP_RELEASE or KEEP_TAG is ever
\* deleted, each run that reached its summary has success_count +
\* failed_count equal to the length of its own candidate list, and no
\* release is counted as successfully deleted by both runs (the delete of a
\* release that is already gone is counted as a failure).
Thm_C26 ==
    pc = "race" =>
        /\ \A r \in Range(remoteAtStart) :
               IsKeepMatch(r) => r \in Range(remote)
        /\ \A i \in Invocations :
               invocations[i].pc = "summary" =>
                   invocations[i].success_count + invocations[i].failed_count
                       = Len(invocations[i].releases_to_delete)
        /\ \A c \in Range(invocations[1].deleteCalls),
              d \in Range(invocations[2].deleteCalls) :
               (c.id = d.id) => ~(c.reported /\ d.reported)
        /\ \A i \in Invocations :
               invocations[i].success_count =
                   Cardinality({ k \in 1..Len(invocations[i].deleteCalls) :
                                   invocations[i].deleteCalls[k].reported })

\* Both runs listed the same two candidates and ran
\* their delete calls interleaved: each run deleted one of the two releases
\* and failed on the one the other run had deleted.
Wit_C26 ==
    /\ pc = "race"
    /\ \A i \in Invocations :
           /\ invocations[i].pc = "summary"
           /\ Len(invocations[i].releases_to_delete) = 2
           /\ invocations[i].success_count = 1
           /\ invocations[i].failed_count = 1
    /\ invocations[1].releases_to_delete = invocations[2].releases_to_delete
    /\ remote = <<>>

\* C28: in the package create_anki_deck writes, every note whose image field
\* is not empty names a file that is among the package's media files, under
\* the name the field holds (the file's name without its directory), and that
\* file is there and not empty.
Thm_C28 ==
    pc = "done" =>
        \A i \in 1..Len(package.notes) :
            package.notes[i].SitelenPonaImage # <<>> =>
                \E j \in 1..Len(package.media_files) :
                    /\ basename(package.media_files[j])
                           = package.notes[i].SitelenPonaImage
                    /\ FileState(image_files, package.media_files[j]) = "valid"

\* A package of two notes, the first with an image and the second, whose
\* image file is empty, without: the media files are the font and the first
\* note's image.
Wit_C28 ==
    /\ pc = "done"
    /\ Len(package.notes) = 2
    /\ package.notes[1].SitelenPonaImage = <<"m", "o", "k", "u", ".", "p", "n", "g">>
    /\ package.notes[2].SitelenPonaImage = <<>>
    /\ FileState(image_files, output_file(<<"p", "u">>)) = "empty"
    /\ Len(package.media_files) = 2
    /\ package.media_files[2] = output_file(<<"m", "o", "k", "u">>)

\* ------------------------------------------- generate_images.py as a script

\* download_nasin_nanpa_font: Path("nasin-nanpa.otf")
nasin_nanpa_otf ==
    <<"n", "a", "s", "i", "n", "-", "n", "a", "n", "p", "a", ".", "o", "t",
      "f">>

\* download_nasin_nanpa_font: font_urls
nanpa_font_urls ==
    <<
       <<"h", "t", "t", "p", "s", ":", "/", "/", "g", "i", "t", "h", "u",
         "b", ".", "c", "o", "m", "/", "k", "r", "e", "a", "t", "i", "v",
         "e", "k", "o", "r", "p", "/", "s", "i", "t", "e", "l", "e", "n",
         "-", "p", "o", "n", "a", "/", "r", "a", "w", "/", "m", "a", "s",
         "t", "e", "r", "/", "f", "o", "n", "t", "s", "/", "s", "i", "t",
         "e", "l", "e", "n", "-", "p", "o", "n", "a", "-", "k", "i", "w",
         "e", "n", ".", "o", "t", "f">>,
       <<"h", "t", "t", "p", "s", ":", "/", "/", "g", "i", "t", "h", "u",
         "b", ".", "c", "o", "m", "/", "k", "r", "e", "a", "t", "i", "v",
         "e", "k", "o", "r", "p", "/", "s", "i", "t", "e", "l", "e", "n",
         "-", "p", "o", "n", "a", "/", "r", "a", "w", "/", "m", "a", "i",
         "n", "/", "f", "o", "n", "t", "s", "/", "s", "i", "t", "e", "l",
         "e", "n", "-", "p", "o", "n", "a", "-", "k", "i", "w", "e", "n",
         ".", "o", "t", "f">>,
       <<"h", "t", "t", "p", "s", ":", "/", "/", "s", "i", "t", "e", "l",
         "e", "n", "p", "o", "n", "a", ".", "o", "r", "g", "/", "f", "o",
         "n", "t", "s", "/", "s", "i", "t", "e", "l", "e", "n", "-", "p",
         "o", "n", "a", "-", "k", "i", "w", "e", "n", ".", "o", "t", "f">>,
       <<"h", "t", "t", "p", "s", ":", "/", "/", "s", "i", "t", "e", "l",
         "e", "n", "p", "o", "n", "a", ".", "o", "r", "g", "/", "f", "o",
         "n", "t", "s", "/", "n", "a", "s", "i", "n", "-", "n", "a", "n",
         "p", "a", ".", "o", "t", "f">>,
       <<"h", "t", "t", "p", "s", ":", "/", "/", "g", "i", "t", "h", "u",
         "b", ".", "c", "o", "m", "/", "j", "a", "n", "S", "a", "m", "e",
         "/", "l", "i", "n", "j", "a", "-", "p", "o", "n", "a", "/", "r",
         "a", "w", "/", "m", "a", "s", "t", "e", "r", "/", "l", "i", "n",
         "j", "a", "-", "p", "o", "n", "a", ".", "o", "t", "f">>,
       <<"h", "t", "t", "p", "s", ":", "/", "/", "g", "i", "t", "h", "u",
         "b", ".", "c", "o", "m", "/", "j", "a", "n", "S", "a", "m", "e",
         "/", "l", "i", "n", "j", "a", "-", "p", "o", "n", "a", "/", "r",
         "a", "w", "/", "m", "a", "i", "n", "/", "l", "i", "n", "j", "a",
         "-", "p", "o", "n", "a", ".", "o", "t", "f">> >>

\* generate_all_images: images_dir / f"{word}.png"
all_images_output_file(w) ==
    <<"s", "i", "t", "e", "l", "e", "n", "_", "p", "o", "n", "a", "_", "i",
      "m", "a", "g", "e", "s", "/">>
        \o w \o <<".", "p", "n", "g">>

\* python generate_images.py is started: the font file of an earlier run or
\* none, a word file, and the drawing library as it is installed.
InitImages ==
    /\ NoReconciler
    /\ unicode_char = <<>>
    /\ pc = "images_start"
    /\ word = <<>>
    /\ font_arg = "none"
    /\ renderings = <<>>
    /\ textbbox \in {"ok", "raises"}
    /\ typeface \in {"loads", "fails"}
    /\ words_file \in WordFiles
    /\ words_data = <<>>
    /\ \E stored \in {"missing", "empty", "valid"} :
           fs = (nasin_nanpa_otf :> stored)
    /\ requests = <<>>
    /\ url_index = 1
    /\ font_path = <<>>
    /\ font_calls = <<>>
    /\ word_index = 1
    /\ word_to_image = <<>>
    /\ image_files = <<>>
    /\ notes = <<>>
    /\ package = [kind |-> "absent", notes |-> <<>>, media_files |-> <<>>]
    /\ reported = 0
    /\ font_response = "none"

\* download_nasin_nanpa_font returns str(font_path) or "manual" to
\* generate_all_images, which passes it to every call of
\* generate_sitelen_pona_image ("if not font_path" never holds).
ReturnNanpaFont(path, made, how) ==
    /\ font_arg' = IF path = nasin_nanpa_otf THEN "nasin-nanpa.otf"
                   ELSE "manual"
    /\ font_calls' =
           Append(font_calls,
                  [returned |-> path, requests |-> made, how |-> how])
    /\ pc' = "images_load"

\* download_nasin_nanpa_font, lines 14-20: the font file is used when it is
\* there, whatever its size.
NanpaFontStart ==
    /\ pc = "images_start"
    /\ requests' = <<>>
    /\ url_index' = 1
    /\ font_response' = "none"
    /\ IF fs[nasin_nanpa_otf] # "missing"
       THEN ReturnNanpaFont(nasin_nanpa_otf, <<>>, "existing")
       ELSE pc' = "nanpa_urls" /\ UNCHANGED <<font_arg, font_calls>>
    /\ UNCHANGED <<words_file, words_data, fs, font_path, word_index,
                   word_to_image, image_files, notes, package, reported, word,
                   textbbox, typeface, renderings, reconcilerVars,
                   unicode_char>>

\* download_nasin_nanpa_font, lines 35-58: one request of the loop over
\* font_urls; a response of 1000 bytes or more is written to nasin-nanpa.otf
\* and returned.
TryNanpaUrl ==
    /\ pc = "nanpa_urls"
    /\ url_index <= Len(nanpa_font_urls)
    /\ requests' = Append(requests, url_index)
    /\ \E answer \in {"ok", "small", "error"} :
        /\ font_response' = answer
        /\ IF font_response_accepted(answer)
           THEN /\ fs' = [fs EXCEPT ![nasin_nanpa_otf] = "valid"]
                /\ ReturnNanpaFont(nasin_nanpa_otf, requests', "download")
                /\ UNCHANGED url_index
           ELSE /\ url_index' = url_index + 1
                /\ pc' = IF url_index = Len(nanpa_font_urls)
                         THEN "nanpa_manual"
                         ELSE "nanpa_urls"
                /\ UNCHANGED <<fs, font_arg, font_calls>>
    /\ UNCHANGED <<words_file, words_data, font_path, word_index,
                   word_to_image, image_files, notes, package, reported, word,
                   textbbox, typeface, renderings, reconcilerVars,
                   unicode_char>>

\* download_nasin_nanpa_font, lines 56-58, after the last URL: "return
\* create_manual_sitelen_pona_mappings()", which gives "manual".  The
\* response of the last request is not read after the loop.
UseManualMappings ==
    /\ pc = "nanpa_manual"
    /\ font_response' = "none"
    /\ ReturnNanpaFont(<<"m", "a", "n", "u", "a", "l">>, requests, "manual")
    /\ UNCHANGED <<words_file, words_data, fs, requests, url_index, font_path,
                   word_index, word_to_image, image_files, notes, package,
                   reported, word, textbbox, typeface, renderings,
                   reconcilerVars, unicode_char>>

\* generate_all_images, lines 459-467: the word file is loaded; what open or
\* json.load raises is not caught and ends the script.
LoadImageWords ==
    /\ pc = "images_load"
    /\ word_index' = 1
    /\ IF json_load(words_file).raised
       THEN pc' = "images_crashed" /\ UNCHANGED words_data
       ELSE /\ words_data' = json_load(words_file).data
            /\ pc' = IF words_data' = <<>> THEN "images_done"
                     ELSE "all_images"
    /\ UNCHANGED <<words_file, fs, requests, url_index, font_path, font_calls,
                   word_to_image, image_files, notes, package, reported, word,
                   font_arg, textbbox, typeface, renderings, reconcilerVars,
                   unicode_char, font_response>>

\* generate_all_images, lines 469-482: one word of the loop.  The image is
\* drawn and saved; what drawing or img.save raises is caught and the loop
\* goes on.  A font file that is empty does not load as a typeface.
GenerateAllImage ==
    /\ pc = "all_images"
    /\ word_index <= Len(words_data)
    /\ LET w == words_data[word_index].word
           face == IF fs[nasin_nanpa_otf] = "valid" THEN typeface ELSE "fails"
           drawn == images_generate_sitelen_pona_image(
                        w, font_arg, DefaultSize, face, textbbox)
           path == all_images_output_file(w)
           n == Len(words_data)
       IN  \E out \in {drawn}, saved \in {"valid", "empty", "raises"} :
            LET raised == out.raised \/ saved = "raises"
                next == ImagesLoopNext(raised, word_index, n)
            IN  /\ image_files' =
                       (path :> [state |-> IF raised THEN "missing" ELSE saved,
                                 by |-> out.by])
                           @@ image_files
                /\ renderings' =
                       Append(renderings,
                              [fn |-> "generate_sitelen_pona_image",
                               word |-> w,
                               returned |-> IF raised THEN <<>> ELSE path])
                /\ word_index' = IF next > n THEN 1 ELSE next
                /\ pc' = IF next > n THEN "images_done" ELSE "all_images"
    /\ UNCHANGED <<words_file, words_data, fs, requests, url_index, font_path,
                   font_calls, word_to_image, notes, package, reported, word,
                   font_arg, textbbox, typeface, reconcilerVars, unicode_char,
                   font_response>>

\* One run of generate_images.py.
NextImages ==
    \/ NanpaFontStart
    \/ TryNanpaUrl
    \/ UseManualMappings
    \/ LoadImageWords
    \/ GenerateAllImage

\* A run of generate_anki_deck.py or a run of generate_images.py.
InitGenerate == InitDeck \/ InitImages

SpecGenerate == InitGenerate /\ [][NextDeck \/ NextImages]_vars

\* The loop over the words was entered: create_anki_deck found a font file
\* and a word, or generate_all_images found a word.
WordsLoopDone ==
    \/ pc = "images_done"
    \/ /\ pc \in {"notes", "write", "done"}
       /\ font_path # <<>>
       /\ fs[font_path] # "missing"
       /\ words_data # <<>>

\* C27: in generate_sitelen_pona_images and in generate_all_images the
\* image of every word of the mapping is attempted exactly once, in the
\* mapping's order, whether or not the image of an earlier word raised; and
\* word_to_image holds exactly the words whose generation returned a path,
\* each with that path.
Thm_C27 ==
    /\ Len(renderings) <= Len(words_data)
    /\ \A k \in 1..Len(renderings) : renderings[k].word = words_data[k].word
    /\ pc \in {"images", "all_images"} => Len(renderings) = word_index - 1
    /\ WordsLoopDone => Len(renderings) = Len(words_data)
    /\ pc \in {"images", "notes", "write", "done"} =>
           /\ DOMAIN word_to_image =
                  { renderings[k].word :
                      k \in { j \in 1..Len(renderings) :
                                 renderings[j].returned # <<>> } }
           /\ \A k \in 1..Len(renderings) :
                  renderings[k].returned # <<>> =>
                      word_to_image[renderings[k].word]
                          = renderings[k].returned

\* Two words, the image of the first raised and the image of the second was
\* made: both were attempted and word_to_image holds the second only.
Wit_C27 ==
    /\ pc = "notes"
    /\ Len(words_data) = 2
    /\ Len(renderings) = 2
    /\ renderings[1].returned = <<>>
    /\ renderings[2].returned # <<>>
    /\ DOMAIN word_to_image = {words_data[2].word}

\* The URLs of the downloader that is running.
DownloaderUrls ==
    IF pc \in {"images_start", "nanpa_urls", "nanpa_manual", "images_load",
               "all_images", "images_done", "images_crashed"}
    THEN nanpa_font_urls
    ELSE font_urls

====
